---- MODULE Spec2Model ----
(***************************************************************************)
(* The font-extension tools of mcp-svg-to-fonts as a state machine.        *)
(*                                                                         *)
(* Two tool handlers are modelled, step by step at their await points:     *)
(*   extend-font-advanced   (src/src/tools/extend-font-advanced.ts)        *)
(*   extend-existing-font   (src/src/tools/extend-font.ts)                 *)
(* together with the services they call: extractGlyphsFromTTF,             *)
(* mapGlyphNamesWithCSS, parseExistingFont, findSvgFiles,                  *)
(* createTempSVGsFromGlyphs, generateAdvancedFont, generateFont,           *)
(* generateCSS, generateTypeScript and getNextUnicodeValue.                *)
(*                                                                         *)
(* Text is kept as TLA+ strings.  A stylesheet is the sequence of its      *)
(* icon rules; the rule [cls |-> "icon-home", hex |-> "e001"] stands for   *)
(* the text  .icon-home:before { content: "\e001"; }                       *)
(* A JavaScript one-character string is kept as its UTF-16 code unit.      *)
(***************************************************************************)
EXTENDS Integers, Sequences, FiniteSets, TLC

\* ------------------------------------------------------------- bounds
\* Longest glyph table of the font binary the first call starts from.
MaxGlyphs == 2
\* Longest list of icon rules of the stylesheet the first call starts from.
MaxRules == 2
\* Longest listing of the new SVG directory.
MaxNew == 2
\* Number of tool invocations in one behaviour.
MaxCalls == 2

\* ------------------------------------------------- program constants
\* Start of the Private Use Area, used when there is no existing glyph.
PUAStart == 57344
\* First code point the backend assigns by itself to a glyph without override.
BackendStart == 59905
\* extractGlyphsFromTTF keeps a glyph only above this code point.
MinUnicode == 32
\* No code point: glyph.unicode === undefined.
Undefined == -1
\* Default of createTempSVGsFromGlyphs / fontHeight when unitsPerEm is falsy.
DefaultUnitsPerEm == 1000
\* The report lists at most this many preserved icons.
ReportSlice == 10

\* ------------------------------------------------------ text helpers
Char(s, i) == SubSeq(s, i, i)

RECURSIVE LastIndexOf(_, _, _)
\* Greatest index i <= from with Char(s, i) = c, or 0.
LastIndexOf(s, c, from) ==
  IF from = 0 THEN 0
  ELSE IF Char(s, from) = c THEN from
  ELSE LastIndexOf(s, c, from - 1)

RECURSIVE CountChar(_, _, _)
CountChar(s, c, from) ==
  IF from = 0 THEN 0
  ELSE (IF Char(s, from) = c THEN 1 ELSE 0) + CountChar(s, c, from - 1)

EndsWith(s, suffix) ==
  /\ Len(s) >= Len(suffix)
  /\ SubSeq(s, Len(s) - Len(suffix) + 1, Len(s)) = suffix

StartsWith(s, prefix) ==
  /\ Len(s) >= Len(prefix)
  /\ SubSeq(s, 1, Len(prefix)) = prefix

\* path.basename(file, '.svg')
Basename(file) ==
  LET slash == LastIndexOf(file, "/", Len(file))
      base  == SubSeq(file, slash + 1, Len(file))
  IN  IF EndsWith(base, ".svg") /\ Len(base) > 4
        THEN SubSeq(base, 1, Len(base) - 4)
        ELSE base

\* path.join(dir, name + '.svg')
JoinSvg(dir, name) == dir \o "/" \o name \o ".svg"

HexDigit(d) ==
  CASE d = 10 -> "a" [] d = 11 -> "b" [] d = 12 -> "c"
    [] d = 13 -> "d" [] d = 14 -> "e" [] d = 15 -> "f"
    [] OTHER -> ToString(d)

RECURSIVE ToHex(_)
\* Number.prototype.toString(16): lowercase, no prefix, no padding.
ToHex(n) ==
  IF n < 16 THEN HexDigit(n)
  ELSE ToHex(n \div 16) \o HexDigit(n % 16)

HexValue(c) ==
  CASE c = "0" -> 0 [] c = "1" -> 1 [] c = "2" -> 2 [] c = "3" -> 3
    [] c = "4" -> 4 [] c = "5" -> 5 [] c = "6" -> 6 [] c = "7" -> 7
    [] c = "8" -> 8 [] c = "9" -> 9
    [] c = "a" -> 10 [] c = "b" -> 11 [] c = "c" -> 12
    [] c = "d" -> 13 [] c = "e" -> 14 [] c = "f" -> 15
    [] c = "A" -> 10 [] c = "B" -> 11 [] c = "C" -> 12
    [] c = "D" -> 13 [] c = "E" -> 14 [] c = "F" -> 15

RECURSIVE ParseHex(_)
\* parseInt(hex, 16) of a string the regex matched as [0-9a-fA-F]+
ParseHex(s) ==
  IF Len(s) = 0 THEN 0
  ELSE ParseHex(SubSeq(s, 1, Len(s) - 1)) * 16 + HexValue(Char(s, Len(s)))

\* String.fromCharCode(n): a single UTF-16 code unit, n taken modulo 2^16.
FromCharCode(n) == n % 65536

\* str.charCodeAt(0) of a one-unit string kept as its code unit.
CharCodeAt0(ch) == ch

\* ------------------------------------------------- sequence helpers
Range(s) == {s[i] : i \in DOMAIN s}

SeqsUpTo(S, n) == UNION {[1..k -> S] : k \in 0..n}

Injective(s) == \A i, j \in DOMAIN s : s[i] = s[j] => i = j

Includes(s, x) == \E i \in DOMAIN s : s[i] = x

RECURSIVE Filter(_, _)
\* Array.prototype.filter with the membership test of the conflict check.
Filter(s, keep) ==
  IF s = <<>> THEN <<>>
  ELSE (IF Head(s) \in keep THEN <<Head(s)>> ELSE <<>>) \o Filter(Tail(s), keep)

RECURSIVE Dedup(_)
\* Array.from(new Set(xs)): first occurrences, in order.
Dedup(s) ==
  IF s = <<>> THEN <<>>
  ELSE LET init == Dedup(SubSeq(s, 1, Len(s) - 1))
           x    == s[Len(s)]
       IN  IF Includes(init, x) THEN init ELSE Append(init, x)

SeqMax(s) == CHOOSE m \in Range(s) : \A x \in Range(s) : x <= m

\* ------------------------------------------- Map<string, T> (ordered)
\* A JavaScript Map as the sequence of its entries in insertion order.
MapHas(m, k) == \E i \in DOMAIN m : m[i].key = k

MapGet(m, k) == m[CHOOSE i \in DOMAIN m : m[i].key = k].val

MapSet(m, k, v) ==
  IF MapHas(m, k)
    THEN [i \in DOMAIN m |-> IF m[i].key = k THEN [key |-> k, val |-> v] ELSE m[i]]
    ELSE Append(m, [key |-> k, val |-> v])

\* ---------------------------------------------- extractGlyphsFromTTF
\* A glyph of a font binary: [name, unicode, pathData, advanceWidth]; name ""
\* when the binary stores none, pathData "" when the glyph has no outline
\* (the code tests pathData for truthiness only, so undefined and "" act
\* alike).

\* The name given to an extracted glyph.
GlyphName(g) ==
  LET named == IF g.name = "" THEN "glyph_" \o ToString(g.unicode) ELSE g.name
  IN  IF StartsWith(named, "uni") /\ Len(named) = 7
        THEN "icon_" \o ToHex(g.unicode)
        ELSE named

\* A test that admits the glyph at code point 32 as well.
IsIconGlyphFromMin(g) == g.unicode # Undefined /\ g.unicode >= MinUnicode

\* The test that admits a glyph of the binary.
IsIconGlyph(g) == g.unicode # Undefined /\ g.unicode > MinUnicode

RECURSIVE ExtractedGlyphs(_)
ExtractedGlyphs(glyphs) ==
  IF glyphs = <<>> THEN <<>>
  ELSE LET g == Head(glyphs)
       IN  (IF IsIconGlyph(g)
              THEN << [name        |-> GlyphName(g),
                       unicode     |-> g.unicode,
                       unicodeChar |-> FromCharCode(g.unicode),
                       pathData    |-> g.pathData,
                       advanceWidth |-> g.advanceWidth] >>
              ELSE <<>>)
           \o ExtractedGlyphs(Tail(glyphs))

ExtractGlyphsFromTTF(ttf) ==
  [unitsPerEm |-> ttf.unitsPerEm,
   descender  |-> ttf.descender,
   glyphs     |-> ExtractedGlyphs(ttf.glyphs)]

\* ---------------------------------------------- mapGlyphNamesWithCSS
\* /\.([\w-]+)-([\w-]+):before\s*{\s*content:\s*"\\([0-9a-fA-F]+)"/g on one
\* rule: the first group is greedy, so the class splits at its last hyphen
\* that leaves both groups non-empty; 0 when the rule does not match.
SplitIndex(cls) ==
  LET h == LastIndexOf(cls, "-", Len(cls) - 1)
  IN  IF h >= 2 THEN h ELSE 0

RulePrefix(rule) == SubSeq(rule.cls, 1, SplitIndex(rule.cls) - 1)

RuleIconName(rule) == SubSeq(rule.cls, SplitIndex(rule.cls) + 1, Len(rule.cls))

RuleMatches(rule) == SplitIndex(rule.cls) # 0

\* iconMap.get(unicode): the name of the last matching rule at that code
\* point, "" (undefined) when there is none.
IconMapGet(css, unicode) ==
  LET hits == {i \in DOMAIN css :
                 RuleMatches(css[i]) /\ ParseHex(css[i].hex) = unicode}
  IN  IF hits = {} THEN ""
      ELSE RuleIconName(css[CHOOSE i \in hits : \A j \in hits : j <= i])

\* A reconciliation that answers without the parsed stylesheet.
MapGlyphNamesUnparsed(glyphs, css) == glyphs

MapGlyphNamesWithCSS(glyphs, css) ==
  [i \in DOMAIN glyphs |->
     LET found == IconMapGet(css, glyphs[i].unicode)
     IN  [glyphs[i] EXCEPT !.name = IF found # "" THEN found ELSE glyphs[i].name]]

\* cssContent.match(/\.([\w-]+)-[\w-]+:before/): the first rule that matches.
DetectPrefix(css) ==
  LET hits == {i \in DOMAIN css : RuleMatches(css[i])}
  IN  IF hits = {} THEN "icon"
      ELSE RulePrefix(css[CHOOSE i \in hits : \A j \in hits : i <= j])

\* ------------------------------------------------- parseExistingFont
\* \.(\w+)-(\w+):before ... : \w admits no hyphen, so a rule matches only
\* when its class holds exactly one hyphen, with text on both sides.
WordRuleMatches(rule) ==
  /\ CountChar(rule.cls, "-", Len(rule.cls)) = 1
  /\ SplitIndex(rule.cls) # 0

RECURSIVE ParseExistingFont(_)
ParseExistingFont(css) ==
  IF css = <<>> THEN <<>>
  ELSE (IF WordRuleMatches(Head(css))
          THEN << [name    |-> RuleIconName(Head(css)),
                   unicode |-> FromCharCode(ParseHex(Head(css).hex))] >>
          ELSE <<>>)
       \o ParseExistingFont(Tail(css))

\* ----------------------------------------------- getNextUnicodeValue
GetNextUnicodeValue(existingIcons) ==
  IF Len(existingIcons) = 0 THEN PUAStart
  ELSE SeqMax([i \in DOMAIN existingIcons |-> CharCodeAt0(existingIcons[i].unicode)]) + 1

\* ------------------------------------- generateCSS, generateTypeScript
RECURSIVE IconsOfExisting(_, _)
\* existingIcons.forEach(icon => allIcons.set(icon.name, hex))
IconsOfExisting(allIcons, existingIcons) ==
  IF existingIcons = <<>> THEN allIcons
  ELSE IconsOfExisting(
         MapSet(allIcons, Head(existingIcons).name,
                ToHex(CharCodeAt0(Head(existingIcons).unicode))),
         Tail(existingIcons))

RECURSIVE IconsOfGlyphs(_, _)
\* glyphs.forEach(glyph => allIcons.set(basename(path), hex))
IconsOfGlyphs(allIcons, glyphs) ==
  IF glyphs = <<>> THEN allIcons
  ELSE IconsOfGlyphs(
         MapSet(allIcons, Basename(Head(glyphs).path),
                ToHex(CharCodeAt0(Head(glyphs).unicode))),
         Tail(glyphs))

\* The icon rules of the generated stylesheet, in emission order.
GenerateCSS(cssPrefix, glyphs, existingIcons) ==
  LET allIcons == IconsOfGlyphs(IconsOfExisting(<<>>, existingIcons), glyphs)
  IN  [i \in DOMAIN allIcons |->
         [cls |-> cssPrefix \o "-" \o allIcons[i].key, hex |-> allIcons[i].val]]

\* The names listed by the generated type declaration, and its prefix.
GenerateTypeScript(cssPrefix, glyphs, existingIcons) ==
  [names  |-> Dedup([i \in DOMAIN existingIcons |-> existingIcons[i].name]
                    \o [i \in DOMAIN glyphs |-> Basename(glyphs[i].path)]),
   prefix |-> cssPrefix]

\* ------------------------------------------------------ svg-utils
\* A document whose transform list is written the other way round:
\* translate(0,-U) scale(1,-1).
PathDataToSVGShiftFirst(pathData, unitsPerEm) ==
  [viewBox |-> <<0, 0, unitsPerEm, unitsPerEm>>,
   paths   |-> << [d         |-> pathData,
                   transform |-> << [op |-> "translate", a |-> 0, b |-> 0 - unitsPerEm],
                                    [op |-> "scale", a |-> 1, b |-> -1] >>] >>]

\* The reconstructed SVG document: its viewBox, and its path elements with
\* their path data and transform list  scale(1,-1) translate(0,-U).
PathDataToSVG(pathData, unitsPerEm) ==
  [viewBox |-> <<0, 0, unitsPerEm, unitsPerEm>>,
   paths   |-> << [d         |-> pathData,
                   transform |-> << [op |-> "scale", a |-> 1, b |-> -1],
                                    [op |-> "translate", a |-> 0, b |-> 0 - unitsPerEm] >>] >>]

RECURSIVE TempSVGs(_, _, _)
\* The files createTempSVGsFromGlyphs writes, in order: one per glyph that
\* has path data.
TempSVGs(glyphs, tempDir, unitsPerEm) ==
  IF glyphs = <<>> THEN <<>>
  ELSE (IF Head(glyphs).pathData # ""
          THEN << [path |-> JoinSvg(tempDir, Head(glyphs).name),
                   svg  |-> PathDataToSVG(Head(glyphs).pathData, unitsPerEm)] >>
          ELSE <<>>)
       \o TempSVGs(Tail(glyphs), tempDir, unitsPerEm)

\* ------------------------------------------------ the compile backend
\* webfont() is an external library; it is modelled by its contract: one
\* glyph per file in file order, named after the file, at the code point
\* glyphTransformFn leaves on it, and an error when two glyphs share a name
\* or a code point.

\* Outline of a new (or original) SVG source file; its content is opaque.
SourceShape == "M0 0H9V9Z"

\* The outline the backend reads from a file: the path data of a temporary
\* SVG written by this invocation, the source's own drawing otherwise.
ShapeOf(file, tempFiles) ==
  LET hits == {i \in DOMAIN tempFiles : tempFiles[i].path = file}
  IN  IF hits = {} THEN SourceShape
      ELSE tempFiles[CHOOSE i \in hits : \A j \in hits : j <= i].svg.paths[1].d

\* glyphTransformFn: the override when the map has the file's icon name,
\* else the code point the backend gave the glyph itself (auto).
GlyphTransformFn(path, unicodeMap, auto) ==
  IF MapHas(unicodeMap, Basename(path))
    THEN MapGet(unicodeMap, Basename(path))
    ELSE auto

\* result.glyphsData: per file its path and the unicode left on its metadata.
GlyphsData(files, unicodeMap) ==
  [i \in DOMAIN files |->
     [path    |-> files[i],
      unicode |-> GlyphTransformFn(files[i], unicodeMap,
                                   FromCharCode(BackendStart + i - 1))]]

\* The compiled binary (the three formats hold the same glyph table).  The
\* backend scales every icon to the font height, so a square icon advances
\* by fontHeight.
CompiledFont(glyphsData, tempFiles, fontHeight, descent) ==
  [glyphs     |-> [i \in DOMAIN glyphsData |->
                     [name     |-> Basename(glyphsData[i].path),
                      unicode  |-> CharCodeAt0(glyphsData[i].unicode),
                      pathData |-> ShapeOf(glyphsData[i].path, tempFiles),
                      advanceWidth |-> fontHeight]],
   unitsPerEm |-> fontHeight,
   descender  |-> descent]

\* The backend refuses an empty file list, a repeated glyph name and a
\* repeated code point.
BackendAccepts(glyphsData) ==
  /\ glyphsData # <<>>
  /\ Injective([i \in DOMAIN glyphsData |-> Basename(glyphsData[i].path)])
  /\ Injective([i \in DOMAIN glyphsData |-> glyphsData[i].unicode])

\* ------------------------------------------- the handlers' sync logic
\* newSvgFiles.map(file => path.basename(file, '.svg'))
IconNames(files) == [i \in DOMAIN files |-> Basename(files[i])]

\* An empty-listing test that lets every listing through.
NoSvgFoundNever(newSvgFiles) == FALSE

\* The empty-listing test of both extend handlers.
NoSvgFound(newSvgFiles) == Len(newSvgFiles) = 0

\* A conflict search that stops at the first colliding name.
ConflictsFirstOnly(newIconNames, existingIconNames) ==
  LET found == Filter(newIconNames, Range(existingIconNames))
  IN  IF found = <<>> THEN <<>> ELSE <<Head(found)>>

\* A conflict search that never matches.
ConflictsNone(newIconNames, existingIconNames) == <<>>

\* newIconNames.filter(name => existingIconNames.includes(name))
Conflicts(newIconNames, existingIconNames) ==
  Filter(newIconNames, Range(existingIconNames))

RECURSIVE SetExisting(_, _)
\* existingGlyphs.forEach(glyph => unicodeMap.set(glyph.name, glyph.unicodeChar))
SetExisting(unicodeMap, existingGlyphs) ==
  IF existingGlyphs = <<>> THEN unicodeMap
  ELSE SetExisting(
         MapSet(unicodeMap, Head(existingGlyphs).name, Head(existingGlyphs).unicodeChar),
         Tail(existingGlyphs))

\* A first value that ignores the existing glyphs.
FirstUnicodeValueFromStart(existingGlyphs) == PUAStart

\* generateAdvancedFont: the first value of nextUnicodeValue.
FirstUnicodeValue(existingGlyphs) ==
  IF Len(existingGlyphs) > 0
    THEN SeqMax([i \in DOMAIN existingGlyphs |-> existingGlyphs[i].unicode]) + 1
    ELSE PUAStart

RECURSIVE AllocateAdvanced(_, _, _)
\* generateAdvancedFont: a new name gets a value only when the map lacks it.
AllocateAdvanced(unicodeMap, newIconNames, nextUnicodeValue) ==
  IF newIconNames = <<>> THEN unicodeMap
  ELSE IF ~MapHas(unicodeMap, Head(newIconNames))
    THEN AllocateAdvanced(
           MapSet(unicodeMap, Head(newIconNames), FromCharCode(nextUnicodeValue)),
           Tail(newIconNames), nextUnicodeValue + 1)
    ELSE AllocateAdvanced(unicodeMap, Tail(newIconNames), nextUnicodeValue)

RECURSIVE AllocateBasic(_, _, _)
\* extend-existing-font: every listed name is set and consumes a value.
AllocateBasic(unicodeMap, newIconNames, nextUnicodeValue) ==
  IF newIconNames = <<>> THEN unicodeMap
  ELSE AllocateBasic(
         MapSet(unicodeMap, Head(newIconNames), FromCharCode(nextUnicodeValue)),
         Tail(newIconNames), nextUnicodeValue + 1)

RECURSIVE SetIcons(_, _)
\* existingIcons.forEach(icon => unicodeMap.set(icon.name, icon.unicode))
SetIcons(unicodeMap, existingIcons) ==
  IF existingIcons = <<>> THEN unicodeMap
  ELSE SetIcons(
         MapSet(unicodeMap, Head(existingIcons).name, Head(existingIcons).unicode),
         Tail(existingIcons))

\* existingIconNames.slice(0, 10)
ReportPreserved(names) == SubSeq(names, 1, IF Len(names) > ReportSlice THEN ReportSlice ELSE Len(names))

\* ------------------------------------------------------------ state
VARIABLES
  font,       \* the artifacts in the existing font directory: [ttf, css]
  pc,         \* the running handler's position ("idle": none running)
  tool,       \* "advanced" (extend-font-advanced) or "basic" (extend-existing-font)
  args,       \* the invocation's arguments and the directories they name
  loc,        \* the handler's local variables
  disk,       \* what this invocation created or wrote under outputDir
  response,   \* the content the handler returned
  calls,      \* invocations completed so far
  published,  \* history: every (name, code) a written stylesheet has carried
  assigned,   \* history: every (name, code) a successful compile was given
  conc        \* two invocations in flight at once: [fs, temp, proc, overlapped]

vars == <<font, pc, tool, args, loc, disk, response, calls, published, assigned, conc>>

\* ------------------------------------------------- the input domains
OutlineChoices == {"", "M1 2L3 4Z"}

BinaryNameChoices == {""}

\* The advance width the hmtx table of an input font gives a glyph: 512 at
\* an even code point, 1024 at an odd one.
AdvanceWidthOf(unicode) == 512 + (unicode % 2) * 512

\* Glyph tables hold up to MaxGlyphs glyphs; a cmap gives a code point to
\* one glyph.
GlyphTables(names, codePoints, outlines) ==
  {[i \in DOMAIN t |->
      [name |-> t[i].name, unicode |-> t[i].unicode, pathData |-> t[i].pathData,
       advanceWidth |-> AdvanceWidthOf(t[i].unicode)]] :
   t \in {u \in SeqsUpTo([name : names, unicode : codePoints, pathData : outlines],
                         MaxGlyphs) :
            Injective([i \in DOMAIN u |-> u[i].unicode])}}

Stylesheets(classes, hexes) == SeqsUpTo([cls : classes, hex : hexes], MaxRules)

FontsOver(tables, stylesheets) ==
  [ttf : [glyphs : tables, unitsPerEm : {1000}, descender : {-200}], css : stylesheets]

\* Ordinary icon fonts: Private Use Area code points, glyphs with and
\* without an outline, plain and hyphenated class names.
OrdinaryFonts ==
  FontsOver(GlyphTables(BinaryNameChoices, {57345, 57346}, OutlineChoices),
            Stylesheets({"icon-home", "icon-user", "icon-arrow-left"}, {"e001", "e002"}))

\* Fonts with a glyph at the last code point of the Basic Multilingual Plane.
EdgeFonts ==
  FontsOver(GlyphTables(BinaryNameChoices, {57345, 65535}, {"M1 2L3 4Z"}),
            Stylesheets({"icon-home"}, {"e001", "ffff"}))

\* The fonts a sequence of invocations starts from.
SeedFonts ==
  FontsOver(GlyphTables(BinaryNameChoices, {57345}, {"M1 2L3 4Z"}),
            Stylesheets({"icon-home"}, {"e001"}))

NewFileChoices ==
  {"new/home.svg", "new/user.svg", "new/settings.svg",
   "new/sub/settings.svg", "new/arrow-left.svg"}

\* glob() lists a file once.
RepeatedNameListing ==
  <<"new/settings.svg", "new/sub/settings.svg", "new/arrow-left.svg">>

\* The listings up to MaxNew files, and one of three files in which a
\* basename found in two directories is followed by another name.
NewListings ==
  {l \in SeqsUpTo(NewFileChoices, MaxNew) : Injective(l)} \cup {RepeatedNameListing}

\* Directories an invocation can name as existingFontDir besides "fonts".
BrokenDirs == {"missing", "nocss", "nottf"}

DefaultArgs ==
  [existingFontDir |-> "fonts",
   newDirExists    |-> TRUE,
   newListing      |-> <<>>,
   origDirExists   |-> TRUE,
   origListing     |-> <<>>,
   cssPrefix       |-> "",
   outputDir       |-> "",
   generateTypes   |-> TRUE,
   preserveMetrics |-> TRUE]

\* Optional arguments, one of them supplied.
OptionChoices ==
  { [DefaultArgs EXCEPT !.cssPrefix = "fa"],
    [DefaultArgs EXCEPT !.outputDir = "out"],
    [DefaultArgs EXCEPT !.generateTypes = FALSE],
    [DefaultArgs EXCEPT !.preserveMetrics = FALSE] }

\* The listings tried together with a supplied option.
ShortListings == {l \in NewListings : Len(l) <= 1}

\* extend-font-advanced: every listing with the default options, the short
\* listings with one option supplied, and the directories that fail a check.
AdvancedArgs ==
  {[DefaultArgs EXCEPT !.newListing = l] : l \in NewListings}
    \cup {[o EXCEPT !.newListing = l] : o \in OptionChoices, l \in ShortListings}
    \cup {[DefaultArgs EXCEPT !.existingFontDir = d] : d \in BrokenDirs}
    \cup {[DefaultArgs EXCEPT !.newDirExists = FALSE]}

\* extend-existing-font: every listing with the original sources present,
\* the short listings without them, and the directories that fail a check.
BasicArgs ==
  {[DefaultArgs EXCEPT !.newListing = l, !.origListing = <<"orig/home.svg", "orig/user.svg">>] :
      l \in NewListings}
    \cup {[DefaultArgs EXCEPT !.newListing = l] : l \in ShortListings}
    \cup {[DefaultArgs EXCEPT !.existingFontDir = d] : d \in {"missing", "nocss"}}
    \cup {[DefaultArgs EXCEPT !.newDirExists = FALSE],
          [DefaultArgs EXCEPT !.origDirExists = FALSE]}

NoFont == [glyphs |-> <<>>, unitsPerEm |-> 0, descender |-> 0]

NoTypes == [names |-> <<>>, prefix |-> ""]

InitLoc ==
  [outputDir        |-> "",
   cssPrefix        |-> "",
   fontMetadata     |-> NoFont,
   mappedGlyphs     |-> <<>>,
   existingIcons    |-> <<>>,
   newSvgFiles      |-> <<>>,
   originalSvgFiles |-> <<>>,
   files            |-> <<>>,
   unicodeMap       |-> <<>>,
   fontHeight       |-> 0,
   descent          |-> 0,
   glyphsData       |-> <<>>,
   compiled         |-> NoFont]

InitDisk ==
  [dirEnsured |-> FALSE,
   tempExists |-> FALSE,
   tempFiles  |-> <<>>,
   saved      |-> <<>>,
   ttf        |-> NoFont,
   css        |-> <<>>,
   types      |-> NoTypes]

\* No pair of concurrent invocations is in flight.
NoConc == [fs |-> <<>>, temp |-> {}, proc |-> <<>>, overlapped |-> FALSE]

NoResponse ==
  [kind |-> "none", conflicts |-> <<>>, preserved |-> <<>>, added |-> <<>>,
   metricsPreserved |-> FALSE]

Failure(kind) == [NoResponse EXCEPT !.kind = kind]

Init ==
  /\ font \in OrdinaryFonts \cup EdgeFonts
  /\ pc = "idle"
  /\ tool = "none"
  /\ args = DefaultArgs
  /\ loc = InitLoc
  /\ disk = InitDisk
  /\ response = NoResponse
  /\ calls = 0
  /\ published = {}
  /\ assigned = {}
  /\ conc = NoConc

\* --------------------------------------------------------- invocation
\* The MCP client invokes one of the two extend tools.
Call ==
  /\ pc = "idle"
  /\ calls < MaxCalls
  /\ \E t \in {"advanced", "basic"} :
       /\ tool' = t
       /\ args' \in (IF t = "advanced" THEN AdvancedArgs ELSE BasicArgs)
  /\ pc' = "validate"
  /\ loc' = InitLoc
  /\ disk' = InitDisk
  /\ response' = NoResponse
  /\ UNCHANGED <<font, calls, published, assigned, conc>>

\* The handler returns `r`: its locals go out of scope.
Returns(r) ==
  /\ pc' = "done"
  /\ response' = r

\* A try block that starts after the input checks.
InTryPastChecks(position) ==
  position \in {"ensure", "temp", "compile", "remove",
                "write-fonts", "write-css", "write-types"}

\* The try block of each of the four handlers encloses its whole body, so
\* every position of a running handler is inside it.
InTry(position) == TRUE

\* An exception reaches the handler at its current position: inside the try
\* block the catch returns the error text, outside it the exception leaves
\* the handler.
Throws ==
  IF InTry(pc)
    THEN Returns(Failure("error"))
    ELSE pc' = "escaped" /\ response' = response

\* ------------------------------------------- extend-font-advanced
\* Lines 29-86: the directory and file checks, fontName and outputDir.
AdvValidate ==
  /\ pc = "validate" /\ tool = "advanced"
  /\ IF args.existingFontDir = "missing" THEN Returns(Failure("no-existing-dir")) /\ loc' = loc
     ELSE IF ~args.newDirExists THEN Returns(Failure("no-new-dir")) /\ loc' = loc
     ELSE IF args.existingFontDir = "nocss" THEN Returns(Failure("no-css")) /\ loc' = loc
     ELSE IF args.existingFontDir = "nottf" THEN Returns(Failure("no-ttf")) /\ loc' = loc
     ELSE /\ pc' = "extract"
          /\ loc' = [loc EXCEPT !.outputDir = IF args.outputDir = "" THEN args.existingFontDir
                                                                     ELSE args.outputDir]
          /\ response' = response
  /\ UNCHANGED <<font, tool, args, disk, calls, published, assigned, conc>>

\* Line 88: await extractGlyphsFromTTF(ttfPath).
AdvExtract ==
  /\ pc = "extract" /\ tool = "advanced"
  /\ loc' = [loc EXCEPT !.fontMetadata = ExtractGlyphsFromTTF(font.ttf)]
  /\ pc' = "map"
  /\ UNCHANGED <<font, tool, args, disk, response, calls, published, assigned, conc>>

\* Line 89: await mapGlyphNamesWithCSS(fontMetadata.glyphs, cssPath).
AdvMapNames ==
  /\ pc = "map" /\ tool = "advanced"
  /\ loc' = [loc EXCEPT !.mappedGlyphs = MapGlyphNamesWithCSS(loc.fontMetadata.glyphs, font.css),
                        !.cssPrefix = args.cssPrefix]
  /\ pc' = IF args.cssPrefix = "" THEN "prefix" ELSE "find"
  /\ UNCHANGED <<font, tool, args, disk, response, calls, published, assigned, conc>>

\* Lines 91-95: the prefix is read from the stylesheet when none was given.
AdvDetectPrefix ==
  /\ pc = "prefix" /\ tool = "advanced"
  /\ loc' = [loc EXCEPT !.cssPrefix = DetectPrefix(font.css)]
  /\ pc' = "find"
  /\ UNCHANGED <<font, tool, args, disk, response, calls, published, assigned, conc>>

\* Lines 97-123: the listing of the new directory, the empty check and the
\* conflict check.
AdvFindNew ==
  /\ pc = "find" /\ tool = "advanced"
  /\ LET newSvgFiles       == args.newListing
         existingIconNames == [i \in DOMAIN loc.mappedGlyphs |-> loc.mappedGlyphs[i].name]
         conflicts         == Conflicts(IconNames(newSvgFiles), existingIconNames)
     IN  /\ loc' = [loc EXCEPT !.newSvgFiles = newSvgFiles]
         /\ IF NoSvgFound(newSvgFiles) THEN Returns(Failure("no-svg"))
            ELSE IF Len(conflicts) > 0
              THEN Returns([Failure("conflict") EXCEPT !.conflicts = conflicts])
            ELSE pc' = "ensure" /\ response' = response
  /\ UNCHANGED <<font, tool, args, disk, calls, published, assigned, conc>>

\* Line 125: await fs.ensureDir(outputDir); then generateAdvancedFont starts.
AdvEnsureDir ==
  /\ pc = "ensure" /\ tool = "advanced"
  /\ disk' = [disk EXCEPT !.dirEnsured = TRUE]
  /\ pc' = "temp"
  /\ UNCHANGED <<font, tool, args, loc, response, calls, published, assigned, conc>>

\* One temporary directory for every invocation.
TempDirShared(outputDir) == ".temp_glyphs"

\* const tempDir = path.join(config.outputDir, '.temp_glyphs')
TempDirOf(outputDir) == outputDir \o "/.temp_glyphs"

TempDir == TempDirOf(loc.outputDir)

AllSvgFilesNewFirst(existingSvgFiles, newSvgFiles) == newSvgFiles \o existingSvgFiles

\* const allSvgFiles = [...existingGlyphSVGs, ...newSvgFiles]
AllSvgFiles(existingSvgFiles, newSvgFiles) == existingSvgFiles \o newSvgFiles

\* generateAdvancedFont lines 43-82: createTempSVGsFromGlyphs writes every
\* file; then, without another await, the file list, the unicode map and the
\* backend configuration are built and webfont() is called.
GenCreateTemp ==
  /\ pc = "temp" /\ tool = "advanced"
  /\ LET tempFiles  == TempSVGs(loc.mappedGlyphs, TempDir, loc.fontMetadata.unitsPerEm)
         existingGlyphSVGs == [i \in DOMAIN tempFiles |-> tempFiles[i].path]
         unicodeMap == AllocateAdvanced(SetExisting(<<>>, loc.mappedGlyphs),
                                        IconNames(loc.newSvgFiles),
                                        FirstUnicodeValue(loc.mappedGlyphs))
     IN  /\ disk' = [disk EXCEPT !.tempExists = TRUE, !.tempFiles = tempFiles]
         /\ loc' = [loc EXCEPT
                      !.files      = AllSvgFiles(existingGlyphSVGs, loc.newSvgFiles),
                      !.unicodeMap = unicodeMap,
                      !.fontHeight = IF loc.fontMetadata.unitsPerEm # 0
                                       THEN loc.fontMetadata.unitsPerEm ELSE DefaultUnitsPerEm,
                      !.descent    = loc.fontMetadata.descender]
  /\ pc' = "compile"
  /\ UNCHANGED <<font, tool, args, response, calls, published, assigned, conc>>

\* createTempSVGsFromGlyphs fails after ensureDir and some of its writes;
\* the error passes through generateAdvancedFont's catch to the handler's.
GenCreateTempFails ==
  /\ pc = "temp" /\ tool = "advanced"
  /\ LET all == TempSVGs(loc.mappedGlyphs, TempDir, loc.fontMetadata.unitsPerEm)
     IN  \E k \in 0..Len(all) :
           \* k = 0: ensureDir failed; k > 0: the k-th writeFile failed.
           disk' = [disk EXCEPT !.tempExists = (k > 0),
                                !.tempFiles  = SubSeq(all, 1, k - 1)]
  /\ Throws
  /\ loc' = InitLoc
  /\ UNCHANGED <<font, tool, args, calls, published, assigned, conc>>

\* webfont() resolves with the compiled formats and glyphsData.
BackendCompiles ==
  /\ pc = "compile"
  /\ LET glyphsData == GlyphsData(loc.files, loc.unicodeMap)
     IN  /\ BackendAccepts(glyphsData)
         /\ loc' = [loc EXCEPT
                      !.glyphsData = glyphsData,
                      !.compiled   = CompiledFont(glyphsData, disk.tempFiles,
                                                  loc.fontHeight, loc.descent)]
  /\ pc' = IF tool = "advanced" THEN "remove" ELSE "write-fonts"
  /\ UNCHANGED <<font, tool, args, disk, response, calls, published, assigned, conc>>

\* A backend that writes its destination file before rejecting.
BackendFailsAfterWriting ==
  /\ pc = "compile"
  /\ Throws
  /\ loc' = InitLoc
  /\ disk' = [disk EXCEPT !.saved = Append(disk.saved, "ttf"), !.ttf = NoFont]
  /\ UNCHANGED <<font, tool, args, calls, published, assigned, conc>>

\* webfont() rejects: the service's catch rethrows, the handler's catch
\* returns the error text.
BackendFails ==
  /\ pc = "compile"
  /\ Throws
  /\ loc' = InitLoc
  /\ UNCHANGED <<font, tool, args, disk, calls, published, assigned, conc>>

\* generateAdvancedFont line 84: await fs.remove(tempDir).
GenRemoveTemp ==
  /\ pc = "remove" /\ tool = "advanced"
  /\ disk' = [disk EXCEPT !.tempExists = FALSE, !.tempFiles = <<>>]
  /\ pc' = "write-fonts"
  /\ UNCHANGED <<font, tool, args, loc, response, calls, published, assigned, conc>>

\* ------------------------------------------- extend-existing-font
\* Lines 28-83: the directory and file checks, fontName and outputDir.
BasValidate ==
  /\ pc = "validate" /\ tool = "basic"
  /\ IF args.existingFontDir = "missing" THEN Returns(Failure("no-existing-dir")) /\ loc' = loc
     ELSE IF ~args.newDirExists THEN Returns(Failure("no-new-dir")) /\ loc' = loc
     ELSE IF ~args.origDirExists THEN Returns(Failure("no-original-dir")) /\ loc' = loc
     ELSE IF args.existingFontDir = "nocss" THEN Returns(Failure("no-css")) /\ loc' = loc
     ELSE /\ pc' = "parse"
          /\ loc' = [loc EXCEPT !.outputDir = IF args.outputDir = "" THEN args.existingFontDir
                                                                     ELSE args.outputDir]
          /\ response' = response
  /\ UNCHANGED <<font, tool, args, disk, calls, published, assigned, conc>>

\* Lines 85-93: await parseExistingFont(...); without icons and without a
\* supplied prefix the prefix is "icon" at once.
BasParse ==
  /\ pc = "parse" /\ tool = "basic"
  /\ LET existingIcons == ParseExistingFont(font.css)
     IN  /\ loc' = [loc EXCEPT
                      !.existingIcons = existingIcons,
                      !.cssPrefix = IF args.cssPrefix = "" /\ Len(existingIcons) = 0
                                      THEN "icon" ELSE args.cssPrefix]
         /\ pc' = IF args.cssPrefix = "" /\ Len(existingIcons) > 0
                    THEN "prefix" ELSE "find-original"
  /\ UNCHANGED <<font, tool, args, disk, response, calls, published, assigned, conc>>

\* Lines 87-90: the prefix is read from the stylesheet.
BasDetectPrefix ==
  /\ pc = "prefix" /\ tool = "basic"
  /\ loc' = [loc EXCEPT !.cssPrefix = DetectPrefix(font.css)]
  /\ pc' = "find-original"
  /\ UNCHANGED <<font, tool, args, disk, response, calls, published, assigned, conc>>

\* Line 95: await findSvgFiles(originalSvgDirectory).
BasFindOriginal ==
  /\ pc = "find-original" /\ tool = "basic"
  /\ loc' = [loc EXCEPT !.originalSvgFiles = args.origListing]
  /\ pc' = "find"
  /\ UNCHANGED <<font, tool, args, disk, response, calls, published, assigned, conc>>

\* Lines 96-139: the listing of the new directory, the empty check, the
\* conflict check, the unicode map and the file list.
BasFindNew ==
  /\ pc = "find" /\ tool = "basic"
  /\ LET newSvgFiles       == args.newListing
         newIconNames      == IconNames(newSvgFiles)
         existingIconNames == [i \in DOMAIN loc.existingIcons |-> loc.existingIcons[i].name]
         conflicts         == Conflicts(newIconNames, existingIconNames)
     IN  IF NoSvgFound(newSvgFiles)
           THEN Returns(Failure("no-svg")) /\ loc' = [loc EXCEPT !.newSvgFiles = newSvgFiles]
         ELSE IF Len(conflicts) > 0
           THEN /\ Returns([Failure("conflict") EXCEPT !.conflicts = conflicts])
                /\ loc' = [loc EXCEPT !.newSvgFiles = newSvgFiles]
         ELSE /\ loc' = [loc EXCEPT
                           !.newSvgFiles = newSvgFiles,
                           !.unicodeMap  = AllocateBasic(SetIcons(<<>>, loc.existingIcons),
                                                         newIconNames,
                                                         GetNextUnicodeValue(loc.existingIcons)),
                           !.files       = Dedup(AllSvgFiles(loc.originalSvgFiles, newSvgFiles))]
              /\ pc' = "ensure"
              /\ response' = response
  /\ UNCHANGED <<font, tool, args, disk, calls, published, assigned, conc>>

\* Line 141: await fs.ensureDir(outputDir); then generateFont builds its
\* configuration (fontHeight 1000, descent 0) and calls webfont().
BasEnsureDir ==
  /\ pc = "ensure" /\ tool = "basic"
  /\ disk' = [disk EXCEPT !.dirEnsured = TRUE]
  /\ loc' = [loc EXCEPT !.fontHeight = DefaultUnitsPerEm, !.descent = 0]
  /\ pc' = "compile"
  /\ UNCHANGED <<font, tool, args, response, calls, published, assigned, conc>>

\* ------------------------------------------ writing the artifacts
\* The three font files are written (both handlers, same code).
WriteFonts ==
  /\ pc = "write-fonts"
  /\ disk' = [disk EXCEPT !.saved = disk.saved \o <<"woff2", "woff", "ttf">>,
                          !.ttf   = loc.compiled]
  /\ pc' = "write-css"
  /\ UNCHANGED <<font, tool, args, loc, response, calls, published, assigned, conc>>

\* The report of a finished extension.
Report ==
  IF tool = "generate"
    THEN [NoResponse EXCEPT
            !.kind = "success",
            !.added = [i \in DOMAIN loc.glyphsData |-> Basename(loc.glyphsData[i].path)]]
  ELSE IF tool = "advanced"
    THEN [NoResponse EXCEPT
            !.kind = "success",
            !.preserved = ReportPreserved([i \in DOMAIN loc.mappedGlyphs |-> loc.mappedGlyphs[i].name]),
            !.added = IconNames(loc.newSvgFiles),
            !.metricsPreserved = args.preserveMetrics]
    ELSE [NoResponse EXCEPT
            !.kind = "success",
            !.preserved = IconNames(loc.originalSvgFiles),
            !.added = IconNames(loc.newSvgFiles)]

\* The stylesheet is generated and written; without a type file to write
\* the handler builds its report and returns.
WriteCss ==
  /\ pc = "write-css"
  /\ disk' = [disk EXCEPT
                !.saved = Append(disk.saved, "css"),
                !.css   = GenerateCSS(loc.cssPrefix, loc.glyphsData,
                                      IF tool = "basic" THEN loc.existingIcons ELSE <<>>)]
  /\ IF args.generateTypes
       THEN pc' = "write-types" /\ response' = response
       ELSE Returns(Report)
  /\ UNCHANGED <<font, tool, args, loc, calls, published, assigned, conc>>

\* The type file is generated and written; the handler returns its report.
WriteTypes ==
  /\ pc = "write-types"
  /\ disk' = [disk EXCEPT
                !.saved = Append(disk.saved, "types"),
                !.types = GenerateTypeScript(loc.cssPrefix, loc.glyphsData,
                                             IF tool = "basic" THEN loc.existingIcons ELSE <<>>)]
  /\ Returns(Report)
  /\ UNCHANGED <<font, tool, args, loc, calls, published, assigned, conc>>

\* The steps whose awaited file-system call can reject.
IOSteps ==
  {"extract", "map", "prefix", "parse", "find-original", "find", "ensure",
   "remove", "write-fonts", "write-css", "write-types"}

\* An awaited read, listing or write rejects: the handler's catch returns
\* the error text.
IOFails ==
  /\ pc \in IOSteps
  /\ Throws
  /\ loc' = InitLoc
  /\ UNCHANGED <<font, tool, args, disk, calls, published, assigned, conc>>

\* fs.readdir(existingFontDir) rejects in an extend handler, after the
\* directory checks that precede it have passed.
ReaddirFails ==
  /\ pc = "validate"
  /\ tool \in {"advanced", "basic"}
  /\ args.existingFontDir # "missing"
  /\ args.newDirExists
  /\ args.origDirExists
  /\ Throws
  /\ loc' = InitLoc
  /\ UNCHANGED <<font, tool, args, disk, calls, published, assigned, conc>>

\* The (name, code) pairs of an ordered map of names to characters.
Pairs(m) == {[name |-> m[i].key, code |-> CharCodeAt0(m[i].val)] : i \in DOMAIN m}

\* The ledger a written stylesheet serializes: name to hexadecimal text.
Ledger ==
  IconsOfGlyphs(IconsOfExisting(<<>>, IF tool = "basic" THEN loc.existingIcons ELSE <<>>),
                loc.glyphsData)

LedgerPairs == {[name |-> Ledger[i].key, code |-> ParseHex(Ledger[i].val)] : i \in DOMAIN Ledger}

\* The extension wrote into the directory it read the font from.
InPlace == loc.outputDir = args.existingFontDir

\* The client receives the response.  After a success in place the next
\* invocation reads the artifacts this one wrote; an extension written to
\* another directory leaves the font directory as it was.
Return ==
  /\ pc = "done"
  /\ pc' = "idle"
  /\ calls' = calls + 1
  /\ IF response.kind = "success" /\ InPlace
       THEN /\ font' = [ttf |-> disk.ttf, css |-> disk.css]
            /\ published' = published \cup LedgerPairs
            /\ assigned' = assigned \cup Pairs(loc.unicodeMap)
       ELSE UNCHANGED <<font, published, assigned>>
  /\ UNCHANGED conc
  /\ tool' = "none"
  /\ args' = DefaultArgs
  /\ loc' = InitLoc
  /\ disk' = InitDisk
  /\ response' = NoResponse

Next ==
  \/ Call
  \/ AdvValidate
  \/ AdvExtract
  \/ AdvMapNames
  \/ AdvDetectPrefix
  \/ AdvFindNew
  \/ AdvEnsureDir
  \/ GenCreateTemp
  \/ GenCreateTempFails
  \/ BackendCompiles
  \/ BackendFails
  \/ GenRemoveTemp
  \/ BasValidate
  \/ BasParse
  \/ BasDetectPrefix
  \/ BasFindOriginal
  \/ BasFindNew
  \/ BasEnsureDir
  \/ WriteFonts
  \/ WriteCss
  \/ WriteTypes
  \/ IOFails
  \/ ReaddirFails

\* One invocation, from any font of the input domain.
Spec == Init /\ [][Next]_vars

\* A sequence of invocations, each reading what the last success wrote.
InitSeq ==
  /\ font \in SeedFonts
  /\ pc = "idle"
  /\ tool = "none"
  /\ args = DefaultArgs
  /\ loc = InitLoc
  /\ disk = InitDisk
  /\ response = NoResponse
  /\ calls = 0
  /\ published = {}
  /\ assigned = {}
  /\ conc = NoConc

NextSeq == Next \/ Return

SpecSeq == InitSeq /\ [][NextSeq]_vars

\* The font of the end-to-end scenario: home at U+E001 and user at U+E002.
ScenarioFont ==
  [ttf |-> [glyphs     |-> << [name |-> "", unicode |-> 57345, pathData |-> "M1 2L3 4Z",
                                advanceWidth |-> 1024],
                              [name |-> "", unicode |-> 57346, pathData |-> "M1 2L3 4Z",
                                advanceWidth |-> 1024] >>,
            unitsPerEm |-> 1000,
            descender  |-> -200],
   css |-> << [cls |-> "icon-home", hex |-> "e001"],
              [cls |-> "icon-user", hex |-> "e002"] >>]

InitScenario ==
  /\ font = ScenarioFont
  /\ pc = "idle"
  /\ tool = "none"
  /\ args = DefaultArgs
  /\ loc = InitLoc
  /\ disk = InitDisk
  /\ response = NoResponse
  /\ calls = 0
  /\ published = {}
  /\ assigned = {}
  /\ conc = NoConc

\* One invocation on the scenario font.
SpecScenario == InitScenario /\ [][Next]_vars

\* ------------------------------- generate-font-from-svgs, list-svgs
\* Both tools take one directory of SVG sources; its existence and listing
\* are kept in newDirExists and newListing.
BuildArgs ==
  {[DefaultArgs EXCEPT !.newListing = l] : l \in NewListings}
    \cup {[o EXCEPT !.newListing = l] : o \in OptionChoices, l \in ShortListings}
    \cup {[DefaultArgs EXCEPT !.newDirExists = FALSE]}

\* The MCP client invokes generate-font-from-svgs or list-svgs.
CallBuild ==
  /\ pc = "idle"
  /\ calls < MaxCalls
  /\ tool' \in {"generate", "list"}
  /\ args' \in BuildArgs
  /\ pc' = "validate"
  /\ loc' = InitLoc
  /\ disk' = InitDisk
  /\ response' = NoResponse
  /\ UNCHANGED <<font, calls, published, assigned, conc>>

\* generate-font lines 24-35: the parameter defaults and the directory check.
GfValidate ==
  /\ pc = "validate" /\ tool = "generate"
  /\ IF ~args.newDirExists THEN Returns(Failure("no-new-dir")) /\ loc' = loc
     ELSE /\ pc' = "find"
          /\ loc' = [loc EXCEPT
                       !.outputDir = IF args.outputDir = "" THEN "./fonts" ELSE args.outputDir,
                       !.cssPrefix = IF args.cssPrefix = "" THEN "icon" ELSE args.cssPrefix]
          /\ response' = response
  /\ UNCHANGED <<font, tool, args, disk, calls, published, assigned, conc>>

\* generate-font lines 37-48: the listing and the empty check.
GfFind ==
  /\ pc = "find" /\ tool = "generate"
  /\ loc' = [loc EXCEPT !.newSvgFiles = args.newListing, !.files = args.newListing]
  /\ IF NoSvgFound(args.newListing) THEN Returns(Failure("no-svg"))
     ELSE pc' = "ensure" /\ response' = response
  /\ UNCHANGED <<font, tool, args, disk, calls, published, assigned, conc>>

\* generate-font lines 50-59: await fs.ensureDir(outputDir); then generateFont
\* builds its configuration, without a unicode map, and calls webfont().
GfEnsureDir ==
  /\ pc = "ensure" /\ tool = "generate"
  /\ disk' = [disk EXCEPT !.dirEnsured = TRUE]
  /\ loc' = [loc EXCEPT !.fontHeight = DefaultUnitsPerEm, !.descent = 0]
  /\ pc' = "compile"
  /\ UNCHANGED <<font, tool, args, response, calls, published, assigned, conc>>

\* list-svgs lines 14-23: the directory check.
LsValidate ==
  /\ pc = "validate" /\ tool = "list"
  /\ IF ~args.newDirExists THEN Returns(Failure("no-new-dir"))
     ELSE pc' = "find" /\ response' = response
  /\ UNCHANGED <<font, tool, args, loc, disk, calls, published, assigned, conc>>

\* list-svgs lines 25-53: the listing, the empty answer or the file list.
LsFind ==
  /\ pc = "find" /\ tool = "list"
  /\ IF NoSvgFound(args.newListing) THEN Returns(Failure("no-svg"))
     ELSE Returns([NoResponse EXCEPT !.kind = "success", !.added = IconNames(args.newListing)])
  /\ UNCHANGED <<font, tool, args, loc, disk, calls, published, assigned, conc>>

\* The steps of the four registered tools.
NextAll ==
  \/ Next
  \/ CallBuild
  \/ GfValidate
  \/ GfFind
  \/ GfEnsureDir
  \/ LsValidate
  \/ LsFind

\* One invocation of any of the four tools, on the scenario font.
SpecTools == InitScenario /\ [][NextAll]_vars

\* A font with one glyph more than the report's preserved list shows.
ManyGlyphs == ReportSlice + 1

ManyGlyphFonts ==
  FontsOver({[i \in 1..ManyGlyphs |->
                [name |-> "", unicode |-> PUAStart + i, pathData |-> "M1 2L3 4Z",
                                advanceWidth |-> 1024]]},
            Stylesheets({"icon-home"}, {"e001"}))

\* A font with a glyph in the Supplementary Private Use Area (U+F0001).
AstralFonts ==
  FontsOver({<< [name |-> "", unicode |-> 983041, pathData |-> "M1 2L3 4Z",
                                advanceWidth |-> 1024] >>},
            Stylesheets({"icon-home"}, {"f0001"}))

\* Fonts whose head and hhea tables carry other metrics, among them a zero
\* unitsPerEm and a zero descender.
MetricFonts ==
  [ttf : [glyphs     : {<< [name |-> "", unicode |-> PUAStart + 1,
                            pathData |-> "M1 2L3 4Z",
                                advanceWidth |-> 1024] >>},
          unitsPerEm : {0, 2048},
          descender  : {0, -410}],
   css : {<< [cls |-> "icon-home", hex |-> "e001"] >>}]

\* Fonts with structural glyphs: one without a code point (.notdef), the
\* space at 32, the first glyph above it at 33, beside an icon.
StructuralFonts ==
  FontsOver(GlyphTables(BinaryNameChoices, {Undefined, 32, 33, 57345}, {"M1 2L3 4Z"}),
            {<< [cls |-> "icon-home", hex |-> "e001"] >>})

\* Fonts whose one glyph carries a name in the binary: an icon name, the
\* default name of a glyph at U+E001, a seven-letter word that begins like it.
NamedFonts ==
  FontsOver(GlyphTables({"", "home", "uniE001", "uniform"}, {57345}, {"M1 2L3 4Z"}),
            {<<>>})

\* Fonts outside the ordinary domain.
UnusualFonts ==
  ManyGlyphFonts \cup AstralFonts \cup MetricFonts \cup StructuralFonts \cup NamedFonts

InitUnusual ==
  /\ font \in UnusualFonts
  /\ pc = "idle"
  /\ tool = "none"
  /\ args = DefaultArgs
  /\ loc = InitLoc
  /\ disk = InitDisk
  /\ response = NoResponse
  /\ calls = 0
  /\ published = {}
  /\ assigned = {}
  /\ conc = NoConc

\* One invocation on an unusual font.
SpecUnusual == InitUnusual /\ [][Next]_vars

\* ------------------------------------- two invocations in flight
\* Two extend-font-advanced handlers run on the one event loop of the
\* server; each await is a point where the other may run.  conc.fs is the
\* artifacts of each directory, conc.temp the files under the temporary
\* directories, conc.proc the two handlers (position, arguments, locals,
\* response), conc.overlapped whether a step ran while the other handler was
\* between its first step and its return.
Procs == {1, 2}

ConcDirs == {"fonts", "out1", "out2"}

NoArtifacts == [present |-> FALSE, ttf |-> NoFont, css |-> <<>>, types |-> NoTypes]

\* The arguments of the two invocations: both extend the font in "fonts";
\* the first in place or into "out1", the second into "out1" or "out2".
ConcArgs(p) ==
  IF p = 1
    THEN {[DefaultArgs EXCEPT !.cssPrefix = "icon", !.outputDir = o,
                              !.newListing = <<"new/settings.svg">>] : o \in {"", "out1"}}
    ELSE {[DefaultArgs EXCEPT !.cssPrefix = "icon", !.outputDir = o,
                              !.newListing = <<"new/arrow-left.svg">>] : o \in {"out1", "out2"}}

\* A handler that has just been called.
ConcCalled(a) == [pc |-> "validate", args |-> a, loc |-> InitLoc, response |-> NoResponse]

\* The directories before either handler runs.
ConcInitFs ==
  [d \in ConcDirs |->
     IF d = "fonts"
       THEN [present |-> TRUE, ttf |-> font.ttf, css |-> font.css, types |-> NoTypes]
       ELSE NoArtifacts]

\* A handler returns its response.
ConcReturns(pr, r, fs, temp) ==
  [proc |-> [pr EXCEPT !.pc = "done", !.response = r], fs |-> fs, temp |-> temp]

\* A handler moves on with new locals.
ConcGoes(pr, position, l, fs, temp) ==
  [proc |-> [pr EXCEPT !.pc = position, !.loc = l], fs |-> fs, temp |-> temp]

\* extend-font-advanced lines 29-86: the directory listing and file checks.
StepValidate(pr, fs, temp) ==
  IF ~fs[pr.args.existingFontDir].present
    THEN ConcReturns(pr, Failure("no-css"), fs, temp)
    ELSE ConcGoes(pr, "extract",
                  [pr.loc EXCEPT !.outputDir = IF pr.args.outputDir = ""
                                                 THEN pr.args.existingFontDir
                                                 ELSE pr.args.outputDir],
                  fs, temp)

\* Line 88: the binary is read.
StepExtract(pr, fs, temp) ==
  ConcGoes(pr, "map",
           [pr.loc EXCEPT !.fontMetadata = ExtractGlyphsFromTTF(fs[pr.args.existingFontDir].ttf)],
           fs, temp)

\* Line 89: the stylesheet is read.
StepMapNames(pr, fs, temp) ==
  ConcGoes(pr, "find",
           [pr.loc EXCEPT
              !.mappedGlyphs = MapGlyphNamesWithCSS(pr.loc.fontMetadata.glyphs,
                                                    fs[pr.args.existingFontDir].css),
              !.cssPrefix = pr.args.cssPrefix],
           fs, temp)

\* Lines 97-125: the new listing, the conflict check, ensureDir(outputDir).
StepFindNew(pr, fs, temp) ==
  LET newSvgFiles       == pr.args.newListing
      existingIconNames == [i \in DOMAIN pr.loc.mappedGlyphs |-> pr.loc.mappedGlyphs[i].name]
      conflicts         == Conflicts(IconNames(newSvgFiles), existingIconNames)
  IN  IF NoSvgFound(newSvgFiles) THEN ConcReturns(pr, Failure("no-svg"), fs, temp)
      ELSE IF Len(conflicts) > 0
        THEN ConcReturns(pr, [Failure("conflict") EXCEPT !.conflicts = conflicts], fs, temp)
      ELSE ConcGoes(pr, "temp", [pr.loc EXCEPT !.newSvgFiles = newSvgFiles], fs, temp)

\* generateAdvancedFont lines 41-82, up to the call of webfont().
StepCreateTemp(pr, fs, temp) ==
  LET tempFiles  == TempSVGs(pr.loc.mappedGlyphs, TempDirOf(pr.loc.outputDir),
                             pr.loc.fontMetadata.unitsPerEm)
      existingGlyphSVGs == [i \in DOMAIN tempFiles |-> tempFiles[i].path]
      unicodeMap == AllocateAdvanced(SetExisting(<<>>, pr.loc.mappedGlyphs),
                                     IconNames(pr.loc.newSvgFiles),
                                     FirstUnicodeValue(pr.loc.mappedGlyphs))
      written    == Range(tempFiles)
  IN  ConcGoes(pr, "compile",
               [pr.loc EXCEPT
                  !.files      = AllSvgFiles(existingGlyphSVGs, pr.loc.newSvgFiles),
                  !.unicodeMap = unicodeMap,
                  !.fontHeight = IF pr.loc.fontMetadata.unitsPerEm # 0
                                   THEN pr.loc.fontMetadata.unitsPerEm ELSE DefaultUnitsPerEm,
                  !.descent    = pr.loc.fontMetadata.descender],
               fs,
               {f \in temp : \A w \in written : w.path # f.path} \cup written)

\* webfont() reads the files of the list: a temporary file that is no longer
\* there makes it reject, and the handler's catch returns the error.
StepCompile(pr, fs, temp) ==
  LET glyphsData == GlyphsData(pr.loc.files, pr.loc.unicodeMap)
      existing   == Filter(pr.loc.files, Range(pr.loc.files) \ Range(pr.loc.newSvgFiles))
      missing    == \E i \in DOMAIN existing : \A f \in temp : f.path # existing[i]
  IN  IF missing \/ ~BackendAccepts(glyphsData)
        THEN ConcReturns(pr, Failure("error"), fs, temp)
        ELSE ConcGoes(pr, "remove",
                      [pr.loc EXCEPT
                         !.glyphsData = glyphsData,
                         !.compiled   =
                           CompiledFont(glyphsData,
                                        [i \in DOMAIN existing |->
                                           CHOOSE f \in temp : f.path = existing[i]],
                                        pr.loc.fontHeight, pr.loc.descent)],
                      fs, temp)

\* generateAdvancedFont line 84: await fs.remove(tempDir).
StepRemoveTemp(pr, fs, temp) ==
  ConcGoes(pr, "write-fonts", pr.loc, fs,
           {f \in temp : ~StartsWith(f.path, TempDirOf(pr.loc.outputDir) \o "/")})

\* Lines 137-153: the three font files are written.
StepWriteFonts(pr, fs, temp) ==
  ConcGoes(pr, "write-css", pr.loc,
           [fs EXCEPT ![pr.loc.outputDir] =
              [@ EXCEPT !.present = TRUE, !.ttf = pr.loc.compiled]],
           temp)

\* Lines 155-165: the stylesheet is written.
StepWriteCss(pr, fs, temp) ==
  ConcGoes(pr, "write-types", pr.loc,
           [fs EXCEPT ![pr.loc.outputDir] =
              [@ EXCEPT !.css = GenerateCSS(pr.loc.cssPrefix, pr.loc.glyphsData, <<>>)]],
           temp)

\* Lines 167-219: the type declaration is written and the report returned.
StepWriteTypes(pr, fs, temp) ==
  ConcReturns(pr,
              [NoResponse EXCEPT
                 !.kind = "success",
                 !.preserved = ReportPreserved([i \in DOMAIN pr.loc.mappedGlyphs |->
                                                  pr.loc.mappedGlyphs[i].name]),
                 !.added = IconNames(pr.loc.newSvgFiles),
                 !.metricsPreserved = pr.args.preserveMetrics],
              [fs EXCEPT ![pr.loc.outputDir] =
                 [@ EXCEPT !.types = GenerateTypeScript(pr.loc.cssPrefix,
                                                        pr.loc.glyphsData, <<>>)]],
              temp)

\* The step a handler takes from its position.
StepOf(pr, fs, temp) ==
  CASE pr.pc = "validate"    -> StepValidate(pr, fs, temp)
    [] pr.pc = "extract"     -> StepExtract(pr, fs, temp)
    [] pr.pc = "map"         -> StepMapNames(pr, fs, temp)
    [] pr.pc = "find"        -> StepFindNew(pr, fs, temp)
    [] pr.pc = "temp"        -> StepCreateTemp(pr, fs, temp)
    [] pr.pc = "compile"     -> StepCompile(pr, fs, temp)
    [] pr.pc = "remove"      -> StepRemoveTemp(pr, fs, temp)
    [] pr.pc = "write-fonts" -> StepWriteFonts(pr, fs, temp)
    [] pr.pc = "write-css"   -> StepWriteCss(pr, fs, temp)
    [] pr.pc = "write-types" -> StepWriteTypes(pr, fs, temp)

\* The other handler is between its first step and its return.
OtherRunning(p) ==
  \E q \in Procs \ {p} : conc.proc[q].pc \notin {"validate", "done"}

\* Handler p is at the given position.
At(p, position) == conc.proc # <<>> /\ conc.proc[p].pc = position

\* Handler p runs from its position to its next await.
Takes(p) ==
  /\ LET s == StepOf(conc.proc[p], conc.fs, conc.temp)
     IN  conc' = [fs         |-> s.fs,
                  temp       |-> s.temp,
                  proc       |-> [conc.proc EXCEPT ![p] = s.proc],
                  overlapped |-> conc.overlapped \/ OtherRunning(p)]
  /\ UNCHANGED <<font, pc, tool, args, loc, disk, response, calls, published, assigned>>

ConcValidate(p) ==
  /\ At(p, "validate")
  /\ Takes(p)

ConcExtract(p) ==
  /\ At(p, "extract")
  /\ Takes(p)

ConcMapNames(p) ==
  /\ At(p, "map")
  /\ Takes(p)

ConcFindNew(p) ==
  /\ At(p, "find")
  /\ Takes(p)

ConcCreateTemp(p) ==
  /\ At(p, "temp")
  /\ Takes(p)

ConcCompile(p) ==
  /\ At(p, "compile")
  /\ Takes(p)

ConcRemoveTemp(p) ==
  /\ At(p, "remove")
  /\ Takes(p)

ConcWriteFonts(p) ==
  /\ At(p, "write-fonts")
  /\ Takes(p)

ConcWriteCss(p) ==
  /\ At(p, "write-css")
  /\ Takes(p)

ConcWriteTypes(p) ==
  /\ At(p, "write-types")
  /\ Takes(p)

InitConc ==
  /\ font = ScenarioFont
  /\ pc = "idle"
  /\ tool = "none"
  /\ args = DefaultArgs
  /\ loc = InitLoc
  /\ disk = InitDisk
  /\ response = NoResponse
  /\ calls = 0
  /\ published = {}
  /\ assigned = {}
  /\ conc \in {[fs         |-> ConcInitFs,
                temp       |-> {},
                proc       |-> << ConcCalled(a1), ConcCalled(a2) >>,
                overlapped |-> FALSE] : a1 \in ConcArgs(1), a2 \in ConcArgs(2)}

NextConc ==
  \E p \in Procs :
    \/ ConcValidate(p)
    \/ ConcExtract(p)
    \/ ConcMapNames(p)
    \/ ConcFindNew(p)
    \/ ConcCreateTemp(p)
    \/ ConcCompile(p)
    \/ ConcRemoveTemp(p)
    \/ ConcWriteFonts(p)
    \/ ConcWriteCss(p)
    \/ ConcWriteTypes(p)

SpecConc == InitConc /\ [][NextConc]_vars

\* ======================================================= properties
\* The names the running tool recovers from the existing font before its
\* conflict check: the reconciled glyph names (extend-font-advanced), the
\* names of the parsed stylesheet (extend-existing-font).
RecoveredLedger ==
  IF tool = "advanced"
    THEN LET g == MapGlyphNamesWithCSS(ExtractGlyphsFromTTF(font.ttf).glyphs, font.css)
         IN  [i \in DOMAIN g |-> [name |-> g[i].name, code |-> g[i].unicode]]
  ELSE IF tool = "basic"
    THEN LET e == ParseExistingFont(font.css)
         IN  [i \in DOMAIN e |-> [name |-> e[i].name, code |-> CharCodeAt0(e[i].unicode)]]
  ELSE <<>>

RecoveredNames ==
  LET ledger == RecoveredLedger
  IN  {ledger[i].name : i \in DOMAIN ledger}

CollidingNames == Range(IconNames(args.newListing)) \cap RecoveredNames

\* The invocation names directories and files that pass the handler's checks.
InputsValid ==
  /\ tool \in {"advanced", "basic"}
  /\ args.existingFontDir = "fonts"
  /\ args.newDirExists
  /\ args.origDirExists

\* The handler returned without an I/O or compile error.
Answered == pc = "done" /\ InputsValid /\ response.kind # "error"

Succeeded == pc = "done" /\ response.kind = "success"

\* Positions after the collision check.
PastChecks ==
  {"ensure", "temp", "compile", "remove", "write-fonts", "write-css", "write-types"}

LedgerMax ==
  LET ledger == RecoveredLedger
  IN  IF ledger = <<>> THEN PUAStart - 1
      ELSE SeqMax([i \in DOMAIN ledger |-> ledger[i].code])

\* C2: with M the greatest existing code point, the i-th new name in scan
\* order is given M+i (0xE000 onwards when there is no existing glyph).
C2_AllocationIsConsecutive ==
  pc = "compile" =>
    LET names == Dedup(IconNames(loc.newSvgFiles))
    IN  \A i \in DOMAIN names :
          /\ MapHas(loc.unicodeMap, names[i])
          /\ CharCodeAt0(MapGet(loc.unicodeMap, names[i])) = LedgerMax + i

\* C2 case: the existing maximum is U+FFFF and the new name is given U+0000.
C2_WrapsAfterFFFF ==
  /\ pc = "compile"
  /\ tool = "advanced"
  /\ LedgerMax = 65535
  /\ loc.newSvgFiles = <<"new/settings.svg">>
  /\ MapGet(loc.unicodeMap, "settings") = 0

\* C3: once a successful extension has written a (name, code point) pair
\* into the stylesheet, every later successful extension of that font
\* writes the same pair.
C3_PairsAreStable ==
  (Succeeded /\ InPlace) => published \subseteq LedgerPairs

\* C3 case: arrow-left was written at U+E002, and the next extension writes
\* U+E002 under the name left.
C3_RenamedByNextExtension ==
  /\ Succeeded /\ InPlace
  /\ [name |-> "arrow-left", code |-> 57346] \in published
  /\ [name |-> "arrow-left", code |-> 57346] \notin LedgerPairs
  /\ [name |-> "left", code |-> 57346] \in LedgerPairs

\* C4: over the successful extensions of one font, a code point given to one
\* name is never given to another name.
C4_NoCodePointReuse ==
  \A a, b \in assigned : a.code = b.code => a.name = b.name

\* C4 case: U+E002 was given to arrow-left, and a later extension gave it to
\* settings.
C4_ReusedForAnotherName ==
  /\ [name |-> "arrow-left", code |-> 57346] \in assigned
  /\ [name |-> "settings", code |-> 57346] \in assigned

\* C5: the glyphs handed to compilation have pairwise distinct names and
\* pairwise distinct code points, and so has the ledger written by a
\* successful extension.
C5_NamesAndCodePointsDistinct ==
  /\ pc = "compile" =>
       LET glyphsData == GlyphsData(loc.files, loc.unicodeMap)
       IN  /\ Injective([i \in DOMAIN glyphsData |-> Basename(glyphsData[i].path)])
           /\ Injective([i \in DOMAIN glyphsData |-> glyphsData[i].unicode])
  /\ Succeeded =>
       /\ Injective([i \in DOMAIN Ledger |-> Ledger[i].key])
       /\ Injective([i \in DOMAIN Ledger |-> Ledger[i].val])

\* C5 case: two new files in different directories with the basename
\* settings are both handed to compilation.
C5_SharedBasenameCompiled ==
  /\ pc = "compile"
  /\ Includes(loc.files, "new/settings.svg")
  /\ Includes(loc.files, "new/sub/settings.svg")

\* The input stylesheet's rule i names a code point of a glyph of the binary.
RuleOfGlyph(i) ==
  \E g \in DOMAIN font.ttf.glyphs :
    font.ttf.glyphs[g].unicode = ParseHex(font.css[i].hex)

\* The written stylesheet has a rule with this selector and code point.
Emitted(cls, code) ==
  \E j \in DOMAIN disk.css :
    disk.css[j].cls = cls /\ ParseHex(disk.css[j].hex) = code

\* C6: after a successful extension every rule of the input stylesheet that
\* names a glyph of the existing font is in the output stylesheet with the
\* same selector and the same code point.
C6_StylesheetBackwardCompatible ==
  Succeeded =>
    \A i \in DOMAIN font.css :
      RuleOfGlyph(i) => Emitted(font.css[i].cls, ParseHex(font.css[i].hex))

\* C6 case: no prefix is supplied, every glyph has an outline, and the rule
\* .icon-arrow-left of the input is written as .icon-left.
C6_HyphenatedSelectorRewritten ==
  /\ Succeeded
  /\ tool = "advanced"
  /\ args.cssPrefix = ""
  /\ \A g \in DOMAIN font.ttf.glyphs : font.ttf.glyphs[g].pathData # ""
  /\ font.css = << [cls |-> "icon-home", hex |-> "e001"],
                   [cls |-> "icon-arrow-left", hex |-> "e002"] >>
  /\ RuleOfGlyph(2)
  /\ ~Emitted("icon-arrow-left", 57346)
  /\ Emitted("icon-left", 57346)

\* The (name, code point) pairs the scan of mapGlyphNamesWithCSS collects.
ScannedPairs(css) ==
  {[name |-> IconMapGet(css, ParseHex(css[i].hex)), code |-> ParseHex(css[i].hex)] :
     i \in {j \in DOMAIN css : RuleMatches(css[j])}}

\* The (name, code point) pairs parseExistingFont returns.
ParsedPairs(css) ==
  LET icons == ParseExistingFont(css)
  IN  {[name |-> icons[i].name, code |-> CharCodeAt0(icons[i].unicode)] : i \in DOMAIN icons}

\* C7: the stylesheet generateCSS writes for a ledger, read back by either
\* stylesheet parser, gives exactly the ledger's (name, code point) pairs.
C7_LedgerRoundTrips ==
  Succeeded =>
    /\ ScannedPairs(disk.css) = LedgerPairs
    /\ ParsedPairs(disk.css) = LedgerPairs

\* C7 case: the ledger holds arrow-left; the scan reads the name left and
\* parseExistingFont reads no rule for it.
C7_HyphenatedNameMisread ==
  /\ Succeeded
  /\ \E c \in {57345, 57346, 57347} :
       /\ [name |-> "arrow-left", code |-> c] \in LedgerPairs
       /\ [name |-> "left", code |-> c] \in ScannedPairs(disk.css)
       /\ \A q \in ParsedPairs(disk.css) : q.code # c

\* C8 (as the code has it): an extension with an empty new-source listing
\* is refused with the "No SVG files found" failure before anything is
\* created or written.
C8_EmptyNewSetIsRefused ==
  (tool # "none" /\ args.newListing = <<>>) =>
    /\ disk = InitDisk
    /\ pc \notin PastChecks
    /\ Answered => response.kind = "no-svg"

\* C8 case: a font with a ledger is extended with an empty listing.
C8_RefusedWithLedger ==
  /\ pc = "done"
  /\ response.kind = "no-svg"
  /\ args.newListing = <<>>
  /\ RecoveredLedger # <<>>
  /\ disk = InitDisk

\* C8 (as stated): an extension with an empty new-source listing succeeds
\* and writes the ledger recovered from the existing artifacts, in order.
C8_EmptyNewSetReproducesLedger ==
  (Answered /\ args.newListing = <<>>) =>
    /\ response.kind = "success"
    /\ [i \in DOMAIN Ledger |-> [name |-> Ledger[i].key, code |-> ParseHex(Ledger[i].val)]]
         = RecoveredLedger

\* The invocation of the end-to-end scenario: settings is the one new source
\* (extend-existing-font is given the original sources home and user).
ScenarioCall ==
  /\ font = ScenarioFont
  /\ args.newListing = <<"new/settings.svg">>
  /\ tool = "advanced" \/ (tool = "basic" /\ args.origListing # <<>>)

ScenarioLedger ==
  {[name |-> "home", code |-> 57345],
   [name |-> "user", code |-> 57346],
   [name |-> "settings", code |-> 57347]}

\* C9: from the ledger {home: E001, user: E002} and the new source settings
\* the allocation gives settings E003; the written stylesheet has exactly
\* three rules carrying e001, e002 and e003; the report lists settings as
\* added and home, user as preserved.
C9_EndToEndScenario ==
  ScenarioCall =>
    /\ pc \in {"compile", "remove", "write-fonts", "write-css", "write-types"}
         => Pairs(loc.unicodeMap) = ScenarioLedger
    /\ Succeeded =>
         /\ LedgerPairs = ScenarioLedger
         /\ Len(disk.css) = 3
         /\ [i \in 1..3 |-> disk.css[i].hex] = <<"e001", "e002", "e003">>
         /\ [i \in 1..3 |-> disk.css[i].cls] =
              [i \in 1..3 |-> loc.cssPrefix \o "-" \o <<"home", "user", "settings">>[i]]
         /\ response.added = <<"settings">>
         /\ response.preserved = <<"home", "user">>

\* C9 case: the scenario has run to its report with extend-font-advanced.
C9_ScenarioReported ==
  /\ ScenarioCall
  /\ tool = "advanced"
  /\ Succeeded
  /\ Len(disk.css) = 3

\* C10: when the operation returns, the .temp_glyphs directory is gone.
C10_TempDirRemovedOnReturn ==
  pc = "done" => ~disk.tempExists

\* C10 case: the operation failed after both temporary SVGs were written,
\* and the directory is still there at the return.
C10_TempDirLeftAfterFailure ==
  /\ pc = "done"
  /\ tool = "advanced"
  /\ response.kind = "error"
  /\ disk.tempExists
  /\ Len(disk.tempFiles) = 2

\* The recovered glyphs without a stylesheet rule at their code point.
OrphanNames ==
  LET ledger == RecoveredLedger
  IN  {ledger[i].name : i \in {j \in DOMAIN ledger : IconMapGet(font.css, ledger[j].code) = ""}}

\* C11: an extension of a font with orphan glyphs (extracted, but without a
\* stylesheet rule at their code point) that runs to its report names every
\* orphan in it.
C11_ReportEnumeratesOrphans ==
  (Succeeded /\ tool = "advanced") => OrphanNames \subseteq Range(response.preserved)

\* C11 case: the eleventh glyph is an orphan, the extension succeeded, and
\* the report does not name it.
C11_OrphanMissingFromReport ==
  /\ Succeeded
  /\ tool = "advanced"
  /\ "glyph_57355" \in OrphanNames
  /\ "glyph_57355" \notin Range(response.preserved)
  /\ Len(response.preserved) = ReportSlice

\* The tools that create or write files.
Builds == tool \in {"advanced", "basic", "generate"}

\* Every input check of the running tool passes on this invocation's inputs.
ChecksPass ==
  IF tool = "generate" THEN args.newDirExists /\ args.newListing # <<>>
  ELSE InputsValid /\ args.newListing # <<>> /\ CollidingNames = {}

\* The failures the handlers return from their input checks.
CheckFailures ==
  {"no-existing-dir", "no-new-dir", "no-original-dir", "no-css", "no-ttf",
   "no-svg", "conflict"}

\* C12: no exception leaves a tool handler; a handler that has ended has
\* returned a result, and a failure inside it is returned as an error report.
C12_NoExceptionEscapes ==
  /\ pc # "escaped"
  /\ pc = "done" => response.kind \in CheckFailures \cup {"error", "success"}

\* C12 case: the compile of generate-font-from-svgs failed and the handler
\* returned the error report.
C12_CompileFailureReturned ==
  /\ pc = "done"
  /\ tool = "generate"
  /\ response.kind = "error"
  /\ disk.dirEnsured

C14_LedgerNamesCarryOverride ==
  pc = "compile" =>
    LET glyphsData == GlyphsData(loc.files, loc.unicodeMap)
        ledger     == RecoveredLedger
        newNames   == Range(IconNames(loc.newSvgFiles))
    IN  \A i \in DOMAIN glyphsData :
          LET name == Basename(glyphsData[i].path)
          IN  /\ (name \in newNames \/ \E j \in DOMAIN ledger : ledger[j].name = name)
                   => /\ MapHas(loc.unicodeMap, name)
                      /\ glyphsData[i].unicode = MapGet(loc.unicodeMap, name)
              /\ \A j \in DOMAIN ledger :
                   ledger[j].name = name
                     => CharCodeAt0(glyphsData[i].unicode) = ledger[j].code

\* C14 case: the glyph recovered at U+F0001 is submitted with the override
\* U+0001.
C14_AstralOverrideTruncated ==
  /\ pc = "compile"
  /\ tool = "advanced"
  /\ Len(RecoveredLedger) = 1
  /\ RecoveredLedger[1].code = 983041
  /\ Basename(loc.files[1]) = RecoveredLedger[1].name
  /\ GlyphsData(loc.files, loc.unicodeMap)[1].unicode = 1

\* C15: the unitsPerEm and descender generateAdvancedFont passes to the
\* backend are the values read from the binary, whatever they are.
C15_MetricsPassedUnchanged ==
  (pc \in {"compile", "remove"} /\ tool = "advanced") =>
    /\ loc.fontHeight = font.ttf.unitsPerEm
    /\ loc.descent = font.ttf.descender

\* C15 case: a binary with unitsPerEm 0 is compiled with fontHeight 1000.
C15_ZeroUnitsPerEmReplaced ==
  /\ pc = "compile"
  /\ tool = "advanced"
  /\ font.ttf.unitsPerEm = 0
  /\ loc.fontMetadata.unitsPerEm = 0
  /\ loc.fontHeight = DefaultUnitsPerEm

\* The compile step was handed the metrics of the TTF.
MetricsCarried ==
  /\ loc.fontHeight = loc.fontMetadata.unitsPerEm
  /\ loc.descent = loc.fontMetadata.descender

\* C18: the compile step receives the TTF's unitsPerEm and descender exactly
\* when preserveMetrics is true, and the report's mark says what happened.
C18_PreserveMetricsControlsMetrics ==
  /\ (pc \in {"compile", "remove"} /\ tool = "advanced")
       => (MetricsCarried <=> args.preserveMetrics)
  /\ (pc = "done" /\ tool = "advanced" /\ response.kind = "success")
       => (response.metricsPreserved <=> MetricsCarried)

\* C18 case: preserveMetrics false, the TTF's metrics compiled all the same,
\* and the report marks them as not preserved.
C18_MetricsCarriedWhenDisabled ==
  /\ pc = "done"
  /\ tool = "advanced"
  /\ response.kind = "success"
  /\ ~args.preserveMetrics
  /\ ~response.metricsPreserved
  /\ MetricsCarried
  /\ disk.ttf.unitsPerEm = font.ttf.unitsPerEm
  /\ disk.ttf.descender = font.ttf.descender

\* The names of the rules of the written stylesheet, in file order.
WrittenCssNames ==
  [i \in DOMAIN disk.css |->
     SubSeq(disk.css[i].cls, Len(loc.cssPrefix) + 2, Len(disk.css[i].cls))]

\* The names recovered from the existing font, in discovery order.
DiscoveredNames ==
  LET ledger == RecoveredLedger
  IN  Dedup([i \in DOMAIN ledger |-> ledger[i].name])

\* The names of the new SVG files, in scan order.
ScannedNames == Dedup(IconNames(loc.newSvgFiles))

\* Existing entries in discovery order, new entries in scan order, and
\* every existing entry before every new one.
ExistingThenNew(names, existing, new) ==
  /\ Filter(names, Range(existing)) = Filter(existing, Range(names))
  /\ Filter(names, Range(new)) = new
  /\ \A i, j \in DOMAIN names :
       (names[i] \in Range(existing) /\ names[j] \in Range(new)) => i < j

PublishedNamesAt(code) == {p.name : p \in {q \in published : q.code = code}}

\* The stylesheet has a rule at this code point.
HasRuleAt(css, code) == \E i \in DOMAIN css : ParseHex(css[i].hex) = code

\* C20: mapGlyphNamesWithCSS returns the extracted glyphs one for one, in
\* order, with code point, shape and advance width unchanged; a glyph takes
\* the name the stylesheet gives its code point when there is a rule, and
\* keeps the extractor's name when there is none.
C20_MapKeepsGlyphsAdoptsNames ==
  (tool = "advanced" /\ pc \in {"prefix", "find"}) =>
    LET extracted == ExtractGlyphsFromTTF(font.ttf).glyphs
        mapped    == loc.mappedGlyphs
    IN  /\ Len(mapped) = Len(extracted)
        /\ \A i \in DOMAIN mapped :
             /\ mapped[i].unicode = extracted[i].unicode
             /\ mapped[i].pathData = extracted[i].pathData
             /\ mapped[i].advanceWidth = extracted[i].advanceWidth
             /\ PublishedNamesAt(mapped[i].unicode) # {}
                  => mapped[i].name \in PublishedNamesAt(mapped[i].unicode)
             /\ ~HasRuleAt(font.css, mapped[i].unicode)
                  => mapped[i].name = extracted[i].name

\* C20 case: the stylesheet written by the last extension names U+E002
\* arrow-left, and the glyph at U+E002 comes back named left.
C20_HyphenatedNameCutShort ==
  /\ tool = "advanced"
  /\ pc \in {"prefix", "find"}
  /\ PublishedNamesAt(57346) = {"arrow-left"}
  /\ \E i \in DOMAIN font.css :
       font.css[i] = [cls |-> "icon-arrow-left", hex |-> "e002"]
  /\ \E i \in DOMAIN loc.mappedGlyphs :
       /\ loc.mappedGlyphs[i].unicode = 57346
       /\ loc.mappedGlyphs[i].name = "left"

RECURSIVE RunAlone(_)
\* A handler run from its call to its return with no other handler running.
RunAlone(s) ==
  IF s.proc.pc = "done" THEN s ELSE RunAlone(StepOf(s.proc, s.fs, s.temp))

\* What invocation p gives when it runs alone on the directories as they
\* were before either invocation.
Alone(p) ==
  RunAlone([proc |-> ConcCalled(conc.proc[p].args), fs |-> ConcInitFs, temp |-> {}])

\* The directory invocation p writes.
OutputDirOf(p) ==
  IF conc.proc[p].args.outputDir = ""
    THEN conc.proc[p].args.existingFontDir
    ELSE conc.proc[p].args.outputDir

\* Invocation p has returned what it returns alone, and its output directory
\* holds what it holds then.
SameAsAlone(p) ==
  LET alone == Alone(p)
  IN  /\ conc.proc[p].response = alone.proc.response
      /\ conc.fs[OutputDirOf(p)] = alone.fs[OutputDirOf(p)]

\* C16 (as the claim has it): two concurrent extensions with different output
\* directories each return, and leave in their output directory, what they
\* would when run alone.
C16_DifferentOutputsIndependent ==
  (conc.proc # <<>> /\ OutputDirOf(1) # OutputDirOf(2)) =>
    \A p \in Procs : conc.proc[p].pc = "done" => SameAsAlone(p)

\* C16 case: the first extension works in place on the directory the second
\* reads; the second finishes with something else than it gives alone.
C16_ReaderSeesInPlaceWrites ==
  /\ conc.proc # <<>>
  /\ OutputDirOf(1) = "fonts"
  /\ OutputDirOf(2) = "out2"
  /\ conc.proc[2].pc = "done"
  /\ ~SameAsAlone(2)

\* Neither invocation writes the directory the other reads.
NoReadOfOthersOutput ==
  \A p, q \in Procs :
    p # q => OutputDirOf(p) # conc.proc[q].args.existingFontDir

\* C16 (amended): two concurrent extensions with different output
\* directories, neither of which is the directory the other reads, each
\* return, and leave in their output directory, what they would when run
\* alone.
C16_DisjointDirectoriesIndependent ==
  (conc.proc # <<>> /\ OutputDirOf(1) # OutputDirOf(2) /\ NoReadOfOthersOutput) =>
    \A p \in Procs : conc.proc[p].pc = "done" => SameAsAlone(p)

\* C16 case: the two extensions overlapped, wrote "out1" and "out2", and
\* both succeeded.
C16_BothDoneAfterOverlap ==
  /\ conc.proc # <<>>
  /\ conc.overlapped
  /\ OutputDirOf(1) = "out1"
  /\ OutputDirOf(2) = "out2"
  /\ \A p \in Procs : /\ conc.proc[p].pc = "done"
                      /\ conc.proc[p].response.kind = "success"
                      /\ conc.fs[OutputDirOf(p)].present

\* The indexes of the binary's glyphs that have a code point above 32.
IconIndexes ==
  {i \in DOMAIN font.ttf.glyphs :
     font.ttf.glyphs[i].unicode # Undefined /\ font.ttf.glyphs[i].unicode > 32}

\* The k-th of them in glyph-index order.
IconIndex(k) ==
  CHOOSE i \in IconIndexes : Cardinality({j \in IconIndexes : j <= i}) = k

\* C21: extractGlyphsFromTTF returns, in glyph-index order, exactly the
\* glyphs of the binary with a code point above 32.
C21_ExtractsExactlyIconGlyphs ==
  (tool = "advanced" /\ pc = "map") =>
    LET out == loc.fontMetadata.glyphs
    IN  /\ Len(out) = Cardinality(IconIndexes)
        /\ \A k \in DOMAIN out :
             /\ out[k].unicode = font.ttf.glyphs[IconIndex(k)].unicode
             /\ out[k].pathData = font.ttf.glyphs[IconIndex(k)].pathData
             /\ out[k].unicode > 32

\* C21 case: a binary whose first glyph sits at code point 32 and whose
\* second is an icon; only the icon is extracted.
C21_SpaceLeftOut ==
  /\ tool = "advanced"
  /\ pc = "map"
  /\ Len(font.ttf.glyphs) = 2
  /\ font.ttf.glyphs[1].unicode = 32
  /\ font.ttf.glyphs[2].unicode = 57345
  /\ Len(loc.fontMetadata.glyphs) = 1
  /\ loc.fontMetadata.glyphs[1].unicode = 57345

\* One character that is a hexadecimal digit.
IsHexChar(c) ==
  c \in {"0", "1", "2", "3", "4", "5", "6", "7", "8", "9",
         "a", "b", "c", "d", "e", "f", "A", "B", "C", "D", "E", "F"}

\* The default name a font tool gives a glyph in the Basic Multilingual
\* Plane: "uni" and four hexadecimal digits.
IsDefaultGlyphName(name) ==
  /\ Len(name) = 7
  /\ SubSeq(name, 1, 3) = "uni"
  /\ \A i \in 4..7 : IsHexChar(Char(name, i))

\* The extracted glyphs' names are placeholders made from the code point.
IsPlaceholderFor(name, unicode) ==
  name \in {"glyph_" \o ToString(unicode), "icon_" \o ToHex(unicode)}

\* C22: an extracted glyph has a placeholder name built from its code point
\* exactly when the binary stores no name for it or stores the default
\* name; every other glyph keeps the name of the binary.
C22_PlaceholderOnlyForUnnamed ==
  (tool = "advanced" /\ pc = "map") =>
    LET out == loc.fontMetadata.glyphs
    IN  \A k \in DOMAIN out :
          LET stored == font.ttf.glyphs[IconIndex(k)].name
          IN  IF stored = "" \/ IsDefaultGlyphName(stored)
                THEN IsPlaceholderFor(out[k].name, out[k].unicode)
                ELSE out[k].name = stored

\* C22 case: the binary names the glyph at U+E001 uniform, and the
\* extractor returns it as icon_e001.
C22_WordTakenForDefaultName ==
  /\ tool = "advanced"
  /\ pc = "map"
  /\ Len(font.ttf.glyphs) = 1
  /\ font.ttf.glyphs[1].name = "uniform"
  /\ loc.fontMetadata.glyphs[1].name = "icon_e001"

\* The files handed to the backend that are not new sources.
ExistingFilesCompiled ==
  Filter(loc.files, Range(loc.files) \ Range(loc.newSvgFiles))

\* C23: every glyph the extractor returned is in the set submitted to
\* compilation with a vector source; as many existing glyphs are compiled as
\* were extracted.
C23_EveryExtractedGlyphCompiled ==
  (tool = "advanced" /\ pc = "compile") =>
    /\ Len(ExistingFilesCompiled) = Len(loc.fontMetadata.glyphs)
    /\ \A i \in DOMAIN loc.mappedGlyphs :
         /\ Includes(loc.files, JoinSvg(TempDir, loc.mappedGlyphs[i].name))
         /\ \E f \in DOMAIN disk.tempFiles :
              disk.tempFiles[f].path = JoinSvg(TempDir, loc.mappedGlyphs[i].name)

\* C23 case: two glyphs were extracted, the second without outline data;
\* one existing glyph reaches compilation.
C23_GlyphWithoutOutlineDropped ==
  /\ tool = "advanced"
  /\ pc = "compile"
  /\ Len(loc.fontMetadata.glyphs) = 2
  /\ loc.fontMetadata.glyphs[1].pathData # ""
  /\ loc.fontMetadata.glyphs[2].pathData = ""
  /\ Len(ExistingFilesCompiled) = 1
  /\ ~Includes(loc.files, JoinSvg(TempDir, loc.mappedGlyphs[2].name))

\* Positions of extend-font-advanced before reconciliation has answered.
BeforeReconciled == {"validate", "extract", "map"}

\* Positions before the allocation of generateAdvancedFont.
BeforeAllocated == BeforeReconciled \cup {"prefix", "find", "ensure", "temp"}

\* Positions before the backend has answered.
BeforeCompiled == BeforeAllocated \cup {"compile"}

\* The reconciliation result is the one of the complete extraction and the
\* complete stylesheet.
Reconciled ==
  /\ loc.fontMetadata = ExtractGlyphsFromTTF(font.ttf)
  /\ Len(loc.mappedGlyphs) = Len(loc.fontMetadata.glyphs)
  /\ \A i \in DOMAIN loc.mappedGlyphs :
       LET found == IconMapGet(font.css, loc.fontMetadata.glyphs[i].unicode)
       IN  loc.mappedGlyphs[i].name =
             IF found # "" THEN found ELSE loc.fontMetadata.glyphs[i].name

\* Every reconciled and every new name has its code point in the map.
Allocated ==
  /\ \A i \in DOMAIN loc.mappedGlyphs : MapHas(loc.unicodeMap, loc.mappedGlyphs[i].name)
  /\ \A i \in DOMAIN loc.newSvgFiles : MapHas(loc.unicodeMap, Basename(loc.newSvgFiles[i]))

\* C24: within one extend-font-advanced invocation, reconciliation answers
\* only after extraction and stylesheet parsing, collision detection and
\* allocation come after reconciliation, the compile call after allocation,
\* and every write of a font, stylesheet or type file after the compile call.
C24_StepsInDependencyOrder ==
  (tool = "advanced" /\ pc \notin {"idle", "done"}) =>
    /\ pc \in BeforeReconciled => loc.mappedGlyphs = <<>>
    /\ pc \notin BeforeReconciled => Reconciled
    /\ pc \in BeforeAllocated => loc.unicodeMap = <<>> /\ loc.files = <<>>
    /\ pc \notin BeforeReconciled \cup {"prefix", "find"} => CollidingNames = {}
    /\ pc \notin BeforeAllocated => Allocated
    /\ pc \in BeforeCompiled =>
         /\ loc.compiled = NoFont
         /\ disk.saved = <<>>
         /\ disk.ttf = NoFont /\ disk.css = <<>> /\ disk.types = NoTypes
    /\ pc \notin BeforeCompiled =>
         loc.compiled = CompiledFont(GlyphsData(loc.files, loc.unicodeMap),
                                     TempSVGs(loc.mappedGlyphs, TempDir,
                                              loc.fontMetadata.unitsPerEm),
                                     loc.fontHeight, loc.descent)

\* C24 case: the invocation is about to write its stylesheet: two glyphs
\* were extracted and renamed from the stylesheet, the new name received its
\* code point, the backend answered and the font files are written.
C24_AllStepsTaken ==
  /\ tool = "advanced"
  /\ pc = "write-css"
  /\ Len(loc.fontMetadata.glyphs) = 2
  /\ loc.mappedGlyphs[1].name # loc.fontMetadata.glyphs[1].name
  /\ Len(loc.unicodeMap) = 3
  /\ Len(loc.compiled.glyphs) = 3
  /\ disk.saved = <<"woff2", "woff", "ttf">>

\* One transform function of an SVG transform list applied to a point.
ApplyOne(t, pt) ==
  IF t.op = "scale" THEN <<t.a * pt[1], t.b * pt[2]>>
  ELSE <<pt[1] + t.a, pt[2] + t.b>>

RECURSIVE ApplyTransform(_, _)
\* An SVG transform list applied to a point: the list is a product of
\* matrices, so its last function acts on the point first.
ApplyTransform(list, pt) ==
  IF list = <<>> THEN pt
  ELSE ApplyOne(Head(list), ApplyTransform(Tail(list), pt))

\* Outline points the transform is tried on.
SamplePoints == {<<x, y>> : x \in {0, 3}, y \in {-200, 0, 4, 800}}

\* The extracted glyphs that have outline data, in order.
GlyphsWithOutline ==
  Filter(loc.mappedGlyphs,
         {loc.mappedGlyphs[i] : i \in {j \in DOMAIN loc.mappedGlyphs :
                                          loc.mappedGlyphs[j].pathData # ""}})

\* C25: the document pathDataToSVG writes for an outline and a unitsPerEm U
\* has the viewBox 0 0 U U and one path element, whose path data is the
\* outline unchanged and whose transform takes (x, y) to (x, U - y); it is
\* determined by the outline and U.
C25_DocumentFlipsWithinEm ==
  (tool = "advanced" /\ pc = "compile") =>
    LET U      == font.ttf.unitsPerEm
        glyphs == GlyphsWithOutline
    IN  /\ Len(disk.tempFiles) = Len(glyphs)
        /\ \A i \in DOMAIN disk.tempFiles :
             LET doc == disk.tempFiles[i].svg
             IN  /\ doc.viewBox = <<0, 0, U, U>>
                 /\ Len(doc.paths) = 1
                 /\ doc.paths[1].d = glyphs[i].pathData
                 /\ \A pt \in SamplePoints :
                      ApplyTransform(doc.paths[1].transform, pt) = <<pt[1], U - pt[2]>>
                 /\ \A j \in DOMAIN disk.tempFiles :
                      glyphs[j].pathData = glyphs[i].pathData
                        => disk.tempFiles[j].svg = doc

\* C25 case: an outline of a font with 2048 units per em has been written
\* as a document.
C25_DocumentWrittenFor2048 ==
  /\ tool = "advanced"
  /\ pc = "compile"
  /\ font.ttf.unitsPerEm = 2048
  /\ Len(disk.tempFiles) = 1
  /\ disk.tempFiles[1].svg.paths[1].d = "M1 2L3 4Z"
  /\ ApplyTransform(disk.tempFiles[1].svg.paths[1].transform, <<3, 4>>) = <<3, 2044>>

\* The final ledger of the running extension: the recovered glyphs with
\* their code points, then the new names with the code points given them.
FinalLedger ==
  LET new == ScannedNames
  IN  RecoveredLedger
        \o [i \in DOMAIN new |->
              [name |-> new[i], code |-> CharCodeAt0(MapGet(loc.unicodeMap, new[i]))]]

\* C26: the stylesheet a successful extension writes has exactly one rule
\* .<prefix>-<name>:before per glyph of the final ledger, with the glyph's
\* code point in lowercase hexadecimal, and no other icon rule; the type
\* declaration lists the same names, and is written only when generateTypes
\* is true.
C26_ArtifactsSerializeLedger ==
  Succeeded =>
    LET ledger == FinalLedger
    IN  /\ \A g \in DOMAIN ledger :
             Cardinality({i \in DOMAIN disk.css :
                            /\ disk.css[i].cls = loc.cssPrefix \o "-" \o ledger[g].name
                            /\ disk.css[i].hex = ToHex(ledger[g].code)}) = 1
        /\ \A i \in DOMAIN disk.css :
             \E g \in DOMAIN ledger :
               disk.css[i].cls = loc.cssPrefix \o "-" \o ledger[g].name
        /\ IF args.generateTypes
             THEN /\ Range(disk.types.names) = {ledger[g].name : g \in DOMAIN ledger}
                  /\ Injective(disk.types.names)
             ELSE disk.types = NoTypes /\ ~Includes(disk.saved, "types")

\* C26 case: the ledger holds a glyph without outline data; the written
\* stylesheet has no rule for it and the type declaration does not list it.
C26_LedgerGlyphWithoutRule ==
  /\ Succeeded
  /\ tool = "advanced"
  /\ args.generateTypes
  /\ \E g \in DOMAIN loc.mappedGlyphs :
       /\ loc.mappedGlyphs[g].pathData = ""
       /\ MapHas(loc.unicodeMap, loc.mappedGlyphs[g].name)
       /\ \A i \in DOMAIN disk.css :
            disk.css[i].cls # loc.cssPrefix \o "-" \o loc.mappedGlyphs[g].name
       /\ ~Includes(disk.types.names, loc.mappedGlyphs[g].name)

\* C27: at the compile call of generateAdvancedFont the override of every
\* existing glyph denotes the code point read from the binary, and the
\* override of every new name denotes a code point greater than every
\* existing one.
C27_CodePointsSurviveEncoding ==
  (tool = "advanced" /\ pc = "compile") =>
    LET existing == loc.mappedGlyphs
        new      == IconNames(loc.newSvgFiles)
    IN  /\ \A i \in DOMAIN existing :
             (\A j \in DOMAIN existing : existing[j].name = existing[i].name => j = i)
               => CharCodeAt0(MapGet(loc.unicodeMap, existing[i].name)) = existing[i].unicode
        /\ \A n \in DOMAIN new :
             \A i \in DOMAIN existing :
               CharCodeAt0(MapGet(loc.unicodeMap, new[n])) > existing[i].unicode

\* C27 case: the font's one glyph is at U+F0001; the new name is compiled
\* at U+0002.
C27_AllocatedBelowAstralGlyph ==
  /\ tool = "advanced"
  /\ pc = "compile"
  /\ Len(loc.mappedGlyphs) = 1
  /\ loc.mappedGlyphs[1].unicode = 983041
  /\ loc.newSvgFiles = <<"new/home.svg">>
  /\ MapGet(loc.unicodeMap, "home") = 2

\* The code point the allocation gave a new name.
AllocatedCode(name) == CharCodeAt0(MapGet(loc.unicodeMap, name))

\* C28: when a name occurs more than once in the new-source list, either
\* extend operation gives it one code point and uses up one counter value
\* for it: the distinct new names, in scan order, hold consecutive code
\* points from the first counter value on.
C28_RepeatedNameTakesOneValue ==
  (tool \in {"advanced", "basic"} /\ pc = "compile"
     /\ ~Injective(IconNames(loc.newSvgFiles))) =>
    LET names == ScannedNames
    IN  /\ \A k \in DOMAIN names : MapHas(loc.unicodeMap, names[k])
        /\ AllocatedCode(names[1]) = LedgerMax + 1
        /\ \A k \in 1..(Len(names) - 1) :
             AllocatedCode(names[k + 1]) = AllocatedCode(names[k]) + 1

\* C28 case: extend-existing-font finds settings.svg in two directories and
\* then arrow-left.svg after the ledger's U+E002; U+E003 is passed over,
\* settings is given U+E004 and arrow-left U+E005.
C28_BasicSkipsAValue ==
  /\ tool = "basic"
  /\ pc = "compile"
  /\ loc.newSvgFiles = RepeatedNameListing
  /\ LedgerMax = 57346
  /\ AllocatedCode("settings") = 57348
  /\ AllocatedCode("arrow-left") = 57349

\* The (name, code point) pairs of the icon rules of the written stylesheet.
WrittenCssPairs ==
  {[name |-> WrittenCssNames[i], code |-> ParseHex(disk.css[i].hex)] : i \in DOMAIN disk.css}

\* The (name, code point) pairs of the glyphs of the written binary.
CompiledPairs ==
  {[name |-> disk.ttf.glyphs[i].name, code |-> disk.ttf.glyphs[i].unicode] :
     i \in DOMAIN disk.ttf.glyphs}

\* C29: after a successful extension the written stylesheet and the
\* compiled font hold the same (name, code point) pairs.
C29_StylesheetMatchesCompiledFont ==
  Succeeded => WrittenCssPairs = CompiledPairs

\* C29 case: extend-existing-font ran without the original source of home;
\* the stylesheet keeps the rule of home at U+E001 and the compiled font has
\* no glyph there.
C29_RuleWithoutGlyph ==
  /\ Succeeded
  /\ tool = "basic"
  /\ args.origListing = <<>>
  /\ [name |-> "home", code |-> 57345] \in WrittenCssPairs
  /\ \A p \in CompiledPairs : p.name # "home" /\ p.code # 57345

\* The font files and the stylesheet of the output directory, as written by
\* the running invocation.
WrittenArtifacts == <<disk.saved, disk.ttf, disk.css>>

\* C30: in an extension run in place, a step writes a font file or the
\* stylesheet only when the backend has returned a result, and the step on
\* which the compile step fails leaves the font of the directory and every
\* one of these files as they were before the invocation.
C30_FailedCompileLeavesFontUntouched ==
  [][(InPlace /\ pc # "done") =>
       /\ WrittenArtifacts' # WrittenArtifacts => loc.compiled # NoFont
       /\ (pc = "compile" /\ pc' = "done") =>
            /\ response'.kind = "error"
            /\ font' = font
            /\ WrittenArtifacts' = <<<<>>, NoFont, <<>>>>]_vars

\* C30 case: an extension in place has ended on the error of the
\* compile step; nothing was written over the font of the directory.
C30_CompileFailedInPlace ==
  /\ pc = "done"
  /\ response.kind = "error"
  /\ tool \in {"advanced", "basic"}
  /\ args.outputDir \in {"", args.existingFontDir}
  /\ disk.dirEnsured
  /\ disk.saved = <<>> /\ disk.ttf = NoFont /\ disk.css = <<>>

====
